---- MODULE Spec2Model ----
(***************************************************************************)
(* Model of the podcast directory's CSV import and deduplication pipeline  *)
(* (POST /api/podcasts/import in server/routes.ts, DatabaseStorage and     *)
(* createDeduplicationKey in server/storage.ts).                           *)
(*                                                                         *)
(* Strings are sequences of one-character strings, so that trimming, case  *)
(* folding, the regular-expression replacements and the key separator are  *)
(* computed character by character, as the code computes them.             *)
(***************************************************************************)
EXTENDS Integers, Sequences, FiniteSets, Bags, TLC

(***************************************************************************)
(* JavaScript values and string primitives                                 *)
(***************************************************************************)

\* The value `undefined`: a tuple that is no string (its element is no character).
Undefined == <<"undefined">>

\* Characters matched by \s and removed by String.prototype.trim (ASCII part).
WhitespaceChars == {" ", "\t", "\n", "\r"}

UpperLetters ==
  <<"A","B","C","D","E","F","G","H","I","J","K","L","M",
    "N","O","P","Q","R","S","T","U","V","W","X","Y","Z">>

LowerLetters ==
  <<"a","b","c","d","e","f","g","h","i","j","k","l","m",
    "n","o","p","q","r","s","t","u","v","w","x","y","z">>

\* The lower-case letter of each upper-case letter.
UpperToLower ==
  [c \in {UpperLetters[i] : i \in 1..Len(UpperLetters)} |->
     LowerLetters[CHOOSE i \in 1..Len(UpperLetters) : UpperLetters[i] = c]]

LowerChar(c) == IF c \in DOMAIN UpperToLower THEN UpperToLower[c] ELSE c

\* String.prototype.toLowerCase
toLowerCase(s) == [i \in 1..Len(s) |-> LowerChar(s[i])]

\* Index of the first character that is no whitespace (Len(s) + 1 when there
\* is none).
FirstNonSpace(s) ==
  IF \E i \in 1..Len(s) : s[i] \notin WhitespaceChars
  THEN CHOOSE i \in 1..Len(s) :
         /\ s[i] \notin WhitespaceChars
         /\ \A j \in 1..(i-1) : s[j] \in WhitespaceChars
  ELSE Len(s) + 1

\* Index of the last character that is no whitespace (0 when there is none).
LastNonSpace(s) ==
  IF \E i \in 1..Len(s) : s[i] \notin WhitespaceChars
  THEN CHOOSE i \in 1..Len(s) :
         /\ s[i] \notin WhitespaceChars
         /\ \A j \in (i+1)..Len(s) : s[j] \in WhitespaceChars
  ELSE 0

\* String.prototype.trim
trim(s) == SubSeq(s, FirstNonSpace(s), LastNonSpace(s))

\* Removal of leading whitespace only (the \s+ that follows a matched article).
DropLeadingSpace(s) == SubSeq(s, FirstNonSpace(s), Len(s))

\* s.startsWith(p)
StartsWith(s, p) == Len(s) >= Len(p) /\ SubSeq(s, 1, Len(p)) = p

(***************************************************************************)
(* createDeduplicationKey (server/storage.ts)                              *)
(***************************************************************************)

\* .replace(/\s+/g, ' '): every maximal run of whitespace becomes one blank.
RECURSIVE CollapseSpaces(_)
CollapseSpaces(s) ==
  IF s = <<>> THEN <<>>
  ELSE IF s[1] \in WhitespaceChars
       THEN <<" ">> \o CollapseSpaces(DropLeadingSpace(s))
       ELSE <<s[1]>> \o CollapseSpaces(Tail(s))

\* The character class of /[,.!?;:"'()\[\]{}]/g
PunctuationChars ==
  {",", ".", "!", "?", ";", ":", "\"", "'", "(", ")", "[", "]", "{", "}"}

IsNotPunctuation(c) == c \notin PunctuationChars

\* .replace(/[,.!?;:"'()\[\]{}]/g, '')
RemovePunctuation(s) == SelectSeq(s, IsNotPunctuation)

\* The alternatives of /^(the|a|an)\s+/i, in the order the pattern lists them.
Articles == << <<"t","h","e">>, <<"a">>, <<"a","n">> >>

\* True when the pattern /^(art)\s+/i matches at the start of s.
ArticleMatches(s, art) ==
  /\ Len(s) > Len(art)
  /\ toLowerCase(SubSeq(s, 1, Len(art))) = art
  /\ s[Len(art) + 1] \in WhitespaceChars

\* .replace(/^(the|a|an)\s+/i, ''): one leading article and the whitespace after it.
RemoveLeadingArticle(s) ==
  IF \E k \in 1..Len(Articles) : ArticleMatches(s, Articles[k])
  THEN LET k == CHOOSE k \in 1..Len(Articles) :
                  /\ ArticleMatches(s, Articles[k])
                  /\ \A j \in 1..(k-1) : ~ArticleMatches(s, Articles[j])
       IN DropLeadingSpace(SubSeq(s, Len(Articles[k]) + 1, Len(s)))
  ELSE s

\* normalize without the toLowerCase() call.
normalizeKeepingCase(str) ==
  trim(RemoveLeadingArticle(RemovePunctuation(CollapseSpaces(trim(str)))))

\* const normalize = (str) => str.toLowerCase().trim().replace(...)...trim()
normalize(str) ==
  trim(RemoveLeadingArticle(RemovePunctuation(CollapseSpaces(trim(toLowerCase(str))))))

\* The separator of the template string `${normalize(title)}|||${normalize(host)}`
KeySeparator == <<"|", "|", "|">>

createDeduplicationKey(title, host) ==
  normalize(title) \o KeySeparator \o normalize(host)

(***************************************************************************)
(* CSV rows (csv-parser) and the column resolver of the import handler     *)
(***************************************************************************)

\* A row is an object: its properties in insertion order, each key once.
HasKey(row, k) == \E i \in 1..Len(row) : row[i].key = k

\* row[k]: the value of the property, undefined when the row has none.
Get(row, k) ==
  IF HasKey(row, k) THEN row[CHOOSE i \in 1..Len(row) : row[i].key = k].value
  ELSE Undefined

\* row[k] = v: a new key goes last, an existing key keeps its place.
Put(row, k, v) ==
  IF HasKey(row, k)
  THEN [i \in 1..Len(row) |-> IF row[i].key = k THEN [key |-> k, value |-> v] ELSE row[i]]
  ELSE Append(row, [key |-> k, value |-> v])

DigitChars == <<"0","1","2","3","4","5","6","7","8","9">>

\* String(n) for n >= 0
RECURSIVE NumberToString(_)
NumberToString(n) ==
  IF n < 10 THEN <<DigitChars[n + 1]>>
  ELSE NumberToString(n \div 10) \o <<DigitChars[(n % 10) + 1]>>

\* csv-parser's writeRow: cell i goes under header i, a cell beyond the header
\* list under `_${index}` (index from 0).
RECURSIVE WriteRow(_, _, _, _)
WriteRow(headerList, cells, i, row) ==
  IF i > Len(cells) THEN row
  ELSE WriteRow(headerList, cells, i + 1,
                Put(row,
                    IF i <= Len(headerList) THEN headerList[i]
                    ELSE <<"_">> \o NumberToString(i - 1),
                    cells[i]))

\* Object.keys(row).find(key => key.toLowerCase() === colName.toLowerCase())
CaseInsensitiveMatch(row, colName) ==
  LET lower == toLowerCase(colName)
      Matches(i) == Len(row[i].key) = Len(lower) /\ toLowerCase(row[i].key) = lower
  IN IF \E i \in 1..Len(row) : Matches(i)
     THEN row[CHOOSE i \in 1..Len(row) :
                Matches(i) /\ \A j \in 1..(i-1) : ~Matches(j)].key
     ELSE Undefined

\* One round of the loop that returns the matched value as it is written, without
\* the trim() of the return statements.
ColumnValueForUntrimmed(row, colName) ==
  LET exactMatch == Get(row, colName)
      caseInsensitiveMatch == CaseInsensitiveMatch(row, colName)
  IN IF exactMatch # Undefined /\ trim(exactMatch) # <<>>
     THEN exactMatch
     ELSE IF /\ caseInsensitiveMatch # Undefined
             /\ caseInsensitiveMatch # <<>>
             /\ Get(row, caseInsensitiveMatch) # <<>>
             /\ trim(Get(row, caseInsensitiveMatch)) # <<>>
          THEN Get(row, caseInsensitiveMatch)
          ELSE Undefined

\* One round of the loop of getColumnValue for colName: the value it returns,
\* or undefined when the loop goes on to the next name.
ColumnValueFor(row, colName) ==
  LET exactMatch == Get(row, colName)
      caseInsensitiveMatch == CaseInsensitiveMatch(row, colName)
  IN IF exactMatch # Undefined /\ trim(exactMatch) # <<>>
     THEN trim(exactMatch)
     ELSE IF /\ caseInsensitiveMatch # Undefined
             /\ caseInsensitiveMatch # <<>>
             /\ Get(row, caseInsensitiveMatch) # <<>>
             /\ trim(Get(row, caseInsensitiveMatch)) # <<>>
          THEN trim(Get(row, caseInsensitiveMatch))
          ELSE Undefined

RECURSIVE getColumnValue(_, _)
getColumnValue(row, columnNames) ==
  IF columnNames = <<>> THEN Undefined
  ELSE IF ColumnValueFor(row, Head(columnNames)) # Undefined
       THEN ColumnValueFor(row, Head(columnNames))
       ELSE getColumnValue(row, Tail(columnNames))

\* 'Podcast Title', 'title', 'Title', 'TITLE', 'podcast_title', 'name', 'Name'
titleColumns ==
  << <<"P","o","d","c","a","s","t"," ","T","i","t","l","e">>,
     <<"t","i","t","l","e">>,
     <<"T","i","t","l","e">>,
     <<"T","I","T","L","E">>,
     <<"p","o","d","c","a","s","t","_","t","i","t","l","e">>,
     <<"n","a","m","e">>,
     <<"N","a","m","e">> >>

\* 'Podcast Host(s)', 'host', 'Host', 'HOST', 'hosts', 'Hosts', 'podcast_host'
hostColumns ==
  << <<"P","o","d","c","a","s","t"," ","H","o","s","t","(","s",")">>,
     <<"h","o","s","t">>,
     <<"H","o","s","t">>,
     <<"H","O","S","T">>,
     <<"h","o","s","t","s">>,
     <<"H","o","s","t","s">>,
     <<"p","o","d","c","a","s","t","_","h","o","s","t">> >>

\* 'Country of Production', 'country', 'Country', 'COUNTRY', 'nation', 'location'
countryColumns ==
  << <<"C","o","u","n","t","r","y"," ","o","f"," ","P","r","o","d","u","c","t","i","o","n">>,
     <<"c","o","u","n","t","r","y">>,
     <<"C","o","u","n","t","r","y">>,
     <<"C","O","U","N","T","R","Y">>,
     <<"n","a","t","i","o","n">>,
     <<"l","o","c","a","t","i","o","n">> >>

\* 'Primary Language(s) of the Podcast', 'Primary Language(s)', 'language', 'Language', 'LANGUAGE', 'lang', 'languages', 'Lingua', 'lingua', 'LINGUA', 'linguaggio', 'Linguaggio', 'idioma', 'idiomas', 'Primary Language', 'primary_language', 'main_language', 'podcast_language', 'spoken_language', 'audio_language'
languageColumns ==
  << <<"P","r","i","m","a","r","y"," ","L","a","n","g","u","a","g","e","(","s",")"," ","o","f"," ","t","h","e"," ","P","o","d","c","a","s","t">>,
     <<"P","r","i","m","a","r","y"," ","L","a","n","g","u","a","g","e","(","s",")">>,
     <<"l","a","n","g","u","a","g","e">>,
     <<"L","a","n","g","u","a","g","e">>,
     <<"L","A","N","G","U","A","G","E">>,
     <<"l","a","n","g">>,
     <<"l","a","n","g","u","a","g","e","s">>,
     <<"L","i","n","g","u","a">>,
     <<"l","i","n","g","u","a">>,
     <<"L","I","N","G","U","A">>,
     <<"l","i","n","g","u","a","g","g","i","o">>,
     <<"L","i","n","g","u","a","g","g","i","o">>,
     <<"i","d","i","o","m","a">>,
     <<"i","d","i","o","m","a","s">>,
     <<"P","r","i","m","a","r","y"," ","L","a","n","g","u","a","g","e">>,
     <<"p","r","i","m","a","r","y","_","l","a","n","g","u","a","g","e">>,
     <<"m","a","i","n","_","l","a","n","g","u","a","g","e">>,
     <<"p","o","d","c","a","s","t","_","l","a","n","g","u","a","g","e">>,
     <<"s","p","o","k","e","n","_","l","a","n","g","u","a","g","e">>,
     <<"a","u","d","i","o","_","l","a","n","g","u","a","g","e">> >>

\* 'Year Launched', 'year', 'Year', 'YEAR', 'launch_year', 'start_year'
yearColumns ==
  << <<"Y","e","a","r"," ","L","a","u","n","c","h","e","d">>,
     <<"y","e","a","r">>,
     <<"Y","e","a","r">>,
     <<"Y","E","A","R">>,
     <<"l","a","u","n","c","h","_","y","e","a","r">>,
     <<"s","t","a","r","t","_","y","e","a","r">> >>

\* 'Is the podcast currently active?', 'Is currently active?', 'status', 'Status', 'STATUS', 'active', 'Active'
statusColumns ==
  << <<"I","s"," ","t","h","e"," ","p","o","d","c","a","s","t"," ","c","u","r","r","e","n","t","l","y"," ","a","c","t","i","v","e","?">>,
     <<"I","s"," ","c","u","r","r","e","n","t","l","y"," ","a","c","t","i","v","e","?">>,
     <<"s","t","a","t","u","s">>,
     <<"S","t","a","t","u","s">>,
     <<"S","T","A","T","U","S">>,
     <<"a","c","t","i","v","e">>,
     <<"A","c","t","i","v","e">> >>

\* 'Categories', 'categories', 'Category', 'category', 'CATEGORIES', 'genre', 'genres'
categoriesColumns ==
  << <<"C","a","t","e","g","o","r","i","e","s">>,
     <<"c","a","t","e","g","o","r","i","e","s">>,
     <<"C","a","t","e","g","o","r","y">>,
     <<"c","a","t","e","g","o","r","y">>,
     <<"C","A","T","E","G","O","R","I","E","S">>,
     <<"g","e","n","r","e">>,
     <<"g","e","n","r","e","s">> >>

\* 'Typical Episode Length', 'Episode Length', 'episodeLength', 'episode_length', 'length', 'duration'
episodeLengthColumns ==
  << <<"T","y","p","i","c","a","l"," ","E","p","i","s","o","d","e"," ","L","e","n","g","t","h">>,
     <<"E","p","i","s","o","d","e"," ","L","e","n","g","t","h">>,
     <<"e","p","i","s","o","d","e","L","e","n","g","t","h">>,
     <<"e","p","i","s","o","d","e","_","l","e","n","g","t","h">>,
     <<"l","e","n","g","t","h">>,
     <<"d","u","r","a","t","i","o","n">> >>

\* 'Number of episodes of your podcast published to date', 'Episodes', 'episodes', 'episode_count', 'total_episodes'
episodesColumns ==
  << <<"N","u","m","b","e","r"," ","o","f"," ","e","p","i","s","o","d","e","s"," ","o","f"," ","y","o","u","r"," ","p","o","d","c","a","s","t"," ","p","u","b","l","i","s","h","e","d"," ","t","o"," ","d","a","t","e">>,
     <<"E","p","i","s","o","d","e","s">>,
     <<"e","p","i","s","o","d","e","s">>,
     <<"e","p","i","s","o","d","e","_","c","o","u","n","t">>,
     <<"t","o","t","a","l","_","e","p","i","s","o","d","e","s">> >>

\* 'One-sentence description for the directory listing', 'Description', 'description', 'desc', 'about', 'summary'
descriptionColumns ==
  << <<"O","n","e","-","s","e","n","t","e","n","c","e"," ","d","e","s","c","r","i","p","t","i","o","n"," ","f","o","r"," ","t","h","e"," ","d","i","r","e","c","t","o","r","y"," ","l","i","s","t","i","n","g">>,
     <<"D","e","s","c","r","i","p","t","i","o","n">>,
     <<"d","e","s","c","r","i","p","t","i","o","n">>,
     <<"d","e","s","c">>,
     <<"a","b","o","u","t">>,
     <<"s","u","m","m","a","r","y">> >>

\* 'Logo', 'logo', 'LOGO', 'image', 'Image', 'imageUrl', 'image_url', 'podcast_logo'
imageUrlColumns ==
  << <<"L","o","g","o">>,
     <<"l","o","g","o">>,
     <<"L","O","G","O">>,
     <<"i","m","a","g","e">>,
     <<"I","m","a","g","e">>,
     <<"i","m","a","g","e","U","r","l">>,
     <<"i","m","a","g","e","_","u","r","l">>,
     <<"p","o","d","c","a","s","t","_","l","o","g","o">> >>

\* 'Spotify Link', 'Spotify URL', 'spotify', 'Spotify', 'spotify_url'
spotifyColumns ==
  << <<"S","p","o","t","i","f","y"," ","L","i","n","k">>,
     <<"S","p","o","t","i","f","y"," ","U","R","L">>,
     <<"s","p","o","t","i","f","y">>,
     <<"S","p","o","t","i","f","y">>,
     <<"s","p","o","t","i","f","y","_","u","r","l">> >>

\* 'Instagram @', 'Instagram URL', 'instagram', 'Instagram', 'instagram_url'
instagramColumns ==
  << <<"I","n","s","t","a","g","r","a","m"," ","@">>,
     <<"I","n","s","t","a","g","r","a","m"," ","U","R","L">>,
     <<"i","n","s","t","a","g","r","a","m">>,
     <<"I","n","s","t","a","g","r","a","m">>,
     <<"i","n","s","t","a","g","r","a","m","_","u","r","l">> >>

\* 'YouTube Link', 'YouTube URL', 'youtube', 'Youtube', 'youtube_url'
youtubeColumns ==
  << <<"Y","o","u","T","u","b","e"," ","L","i","n","k">>,
     <<"Y","o","u","T","u","b","e"," ","U","R","L">>,
     <<"y","o","u","t","u","b","e">>,
     <<"Y","o","u","t","u","b","e">>,
     <<"y","o","u","t","u","b","e","_","u","r","l">> >>

\* 'Website', 'Website URL', 'website', 'site', 'url'
websiteColumns ==
  << <<"W","e","b","s","i","t","e">>,
     <<"W","e","b","s","i","t","e"," ","U","R","L">>,
     <<"w","e","b","s","i","t","e">>,
     <<"s","i","t","e">>,
     <<"u","r","l">> >>

\* The resolved value without the || default.
OrDefaultMissing(x, dflt) == x

\* x || dflt for a value that is undefined or a non-empty string
OrDefault(x, dflt) == IF x = Undefined \/ x = <<>> THEN dflt ELSE x

\* new Date().getFullYear()
CurrentYear == 2025

DigitValue(c) == (CHOOSE i \in 1..10 : DigitChars[i] = c) - 1

IsDigit(c) == \E i \in 1..10 : DigitChars[i] = c

\* The value of the longest prefix of decimal digits of s, acc being the value
\* read so far.
RECURSIVE DigitsPrefix(_, _)
DigitsPrefix(s, acc) ==
  IF s = <<>> \/ ~IsDigit(s[1]) THEN acc
  ELSE DigitsPrefix(Tail(s), 10 * acc + DigitValue(s[1]))

\* What parseInt reads of s: leading whitespace is skipped, then a sign.
Unsigned(s) ==
  LET t == DropLeadingSpace(s)
  IN IF t # <<>> /\ t[1] \in {"+", "-"} THEN Tail(t) ELSE t

\* isNaN(parseInt(s)): no decimal digit follows the optional sign.
ParseIntIsNaN(s) == Unsigned(s) = <<>> \/ ~IsDigit(Unsigned(s)[1])

\* parseInt(s) when it is a number (decimal digits; no "0x" prefix in the inputs).
parseInt(s) ==
  IF DropLeadingSpace(s)[1] = "-" THEN 0 - DigitsPrefix(Unsigned(s), 0)
  ELSE DigitsPrefix(Unsigned(s), 0)

\* s.split(',')
RECURSIVE SplitOnComma(_, _)
SplitOnComma(s, piece) ==
  IF s = <<>> THEN <<piece>>
  ELSE IF s[1] = "," THEN <<piece>> \o SplitOnComma(Tail(s), <<>>)
       ELSE SplitOnComma(Tail(s), Append(piece, s[1]))

IsNonEmpty(x) == x # <<>>

\* The split without the filter(Boolean): empty segments stay in the list.
SplitCategoriesKeepingEmpty(categoriesStr) ==
  LET pieces == SplitOnComma(categoriesStr, <<>>)
  IN [i \in 1..Len(pieces) |-> trim(pieces[i])]

\* categoriesStr.split(',').map(s => s.trim()).filter(Boolean)
SplitCategories(categoriesStr) ==
  LET pieces == SplitOnComma(categoriesStr, <<>>)
  IN SelectSeq([i \in 1..Len(pieces) |-> trim(pieces[i])], IsNonEmpty)

\* The template string `Row ${rowNumber}: ${errorMsg}`
RowError(rowNumber, errorMsg) ==
  [prefix |-> "Row ", rowNumber |-> rowNumber, separator |-> ": ", errorMsg |-> errorMsg]

\* The message of the Error thrown for a missing required field.
MissingField(what, row) == [text |-> what, rowData |-> row]

\* The body of the try block of the 'data' handler, up to podcastData.
PodcastData(row) ==
  LET yearStr == OrDefault(getColumnValue(row, yearColumns), NumberToString(CurrentYear))
  IN [ title         |-> getColumnValue(row, titleColumns),
       host          |-> getColumnValue(row, hostColumns),
       country       |-> OrDefault(getColumnValue(row, countryColumns),
                                   <<"U","n","k","n","o","w","n">>),
       language      |-> OrDefault(getColumnValue(row, languageColumns),
                                   <<"E","n","g","l","i","s","h">>),
       year          |-> IF yearStr # <<>> /\ ~ParseIntIsNaN(yearStr)
                         THEN parseInt(yearStr) ELSE CurrentYear,
       status        |-> OrDefault(getColumnValue(row, statusColumns),
                                   <<"A","c","t","i","v","e">>),
       categories    |-> SplitCategories(OrDefault(getColumnValue(row, categoriesColumns), <<>>)),
       episodeLength |-> getColumnValue(row, episodeLengthColumns),
       episodes      |-> getColumnValue(row, episodesColumns),
       description   |-> getColumnValue(row, descriptionColumns),
       socialLinks   |-> [ spotify   |-> getColumnValue(row, spotifyColumns),
                           instagram |-> getColumnValue(row, instagramColumns),
                           youtube   |-> getColumnValue(row, youtubeColumns),
                           website   |-> getColumnValue(row, websiteColumns) ],
       imageUrl      |-> getColumnValue(row, imageUrlColumns) ]

\* !title, !host: the resolved value is undefined (getColumnValue returns no
\* empty string).
Missing(x) == x = Undefined \/ x = <<>>

\* insertPodcastSchema.parse: the columns declared notNull are present.
SchemaAccepts(podcastData) ==
  /\ podcastData.title # Undefined
  /\ podcastData.host # Undefined
  /\ podcastData.country # Undefined
  /\ podcastData.language # Undefined
  /\ podcastData.status # Undefined
  /\ podcastData.year \in Int

\* The 'data' handler without the host check.
ProcessRowHostOptional(row, rowNumber) ==
  LET podcastData == PodcastData(row)
  IN IF Missing(podcastData.title)
     THEN [ok |-> FALSE, error |-> RowError(rowNumber, MissingField("Missing title", row))]
     ELSE [ok |-> TRUE, podcast |-> podcastData]

\* The outcome of the 'data' handler for one row: the record pushed to
\* podcasts, or the message pushed to errors by the catch block.
ProcessRow(row, rowNumber) ==
  LET podcastData == PodcastData(row)
  IN IF Missing(podcastData.title)
     THEN [ok |-> FALSE, error |-> RowError(rowNumber, MissingField("Missing title", row))]
     ELSE IF Missing(podcastData.host)
          THEN [ok |-> FALSE, error |-> RowError(rowNumber, MissingField("Missing host", row))]
          ELSE IF ~SchemaAccepts(podcastData)
               THEN [ok |-> FALSE, error |-> RowError(rowNumber, MissingField("ZodError", row))]
               ELSE [ok |-> TRUE, podcast |-> podcastData]

(***************************************************************************)
(* DatabaseStorage (server/storage.ts) over the podcasts table             *)
(***************************************************************************)

\* The row the table holds for an inserted or updated record.
TableRow(id, insertPodcast) == [id |-> id] @@ insertPodcast

\* The rows of a SELECT without ORDER BY: the table in any order.
SelectOrders(table) ==
  {[i \in 1..Len(table) |-> table[perm[i]]] : perm \in Permutations(1..Len(table))}

KeyOf(podcast) == createDeduplicationKey(podcast.title, podcast.host)

\* A duplicate check that compares the titles and hosts as they are written.
findPodcastsByTitleHostExact(existingPodcasts, titleHostPairs) ==
  IF Len(titleHostPairs) = 0 THEN <<>>
  ELSE LET IsDuplicate(podcast) ==
             \E i \in 1..Len(titleHostPairs) :
               /\ titleHostPairs[i].title = podcast.title
               /\ titleHostPairs[i].host = podcast.host
       IN SelectSeq(existingPodcasts, IsDuplicate)

\* findPodcastsByTitleHost, given the rows its SELECT returned.
findPodcastsByTitleHost(existingPodcasts, titleHostPairs) ==
  IF Len(titleHostPairs) = 0 THEN <<>>
  ELSE LET inputKeys == {KeyOf(titleHostPairs[i]) : i \in 1..Len(titleHostPairs)}
           IsDuplicate(podcast) == KeyOf(podcast) \in inputKeys
       IN SelectSeq(existingPodcasts, IsDuplicate)

\* The ids default to gen_random_uuid(): here the decimal string of a counter.
FreshId(n) == NumberToString(n)

\* bulkCreatePodcasts: the rows that INSERT ... RETURNING gives for the records,
\* the first of them getting the id FreshId(firstId).
InsertedRows(insertPodcasts, firstId) ==
  [i \in 1..Len(insertPodcasts) |-> TableRow(FreshId(firstId + i - 1), insertPodcasts[i])]

\* An UPDATE without its WHERE clause: every row gets the new values.
UpdatedTableEveryRow(table, id, insertPodcast) ==
  [i \in 1..Len(table) |-> TableRow(table[i].id, insertPodcast)]

\* updatePodcast's UPDATE ... WHERE id = id: the table afterwards.
UpdatedTable(table, id, insertPodcast) ==
  [i \in 1..Len(table) |-> IF table[i].id = id THEN TableRow(id, insertPodcast) ELSE table[i]]

\* updatePodcast's UPDATE matches a row: RETURNING gives [podcast], else [].
HasRow(table, id) == \E i \in 1..Len(table) : table[i].id = id

(***************************************************************************)
(* The merge step of the import handler                                    *)
(***************************************************************************)

\* The map left empty: no key is ever found in it.
ExistingMapNeverFilled(existingPodcasts) == <<>>

\* existingPodcasts.forEach(p => existingMap.set(key(p), p.id)): a later row
\* with the same key replaces the id of an earlier one.
ExistingMap(existingPodcasts) ==
  [key \in {KeyOf(existingPodcasts[i]) : i \in 1..Len(existingPodcasts)} |->
     existingPodcasts[CHOOSE i \in 1..Len(existingPodcasts) :
                        /\ KeyOf(existingPodcasts[i]) = key
                        /\ \A j \in (i+1)..Len(existingPodcasts) :
                             KeyOf(existingPodcasts[j]) # key].id]

\* existingMap.get(key)
MapGet(existingMap, key) ==
  IF key \in DOMAIN existingMap THEN existingMap[key] ELSE Undefined

\* if (existingId): a defined, non-empty id
Truthy(existingId) == existingId # Undefined /\ existingId # <<>>

EmptyPlan == [newPodcasts |-> <<>>, duplicatesSkipped |-> <<>>, podcastsToUpdate |-> <<>>]

\* The merge step with the overwrite test inverted.
ClassifyOverwriteInverted(plan, podcast, existingMap, overwriteDuplicates) ==
  LET existingId == MapGet(existingMap, KeyOf(podcast))
  IN IF Truthy(existingId)
     THEN IF ~overwriteDuplicates
          THEN [plan EXCEPT !.podcastsToUpdate =
                  Append(@, [podcast |-> podcast, existingId |-> existingId])]
          ELSE [plan EXCEPT !.duplicatesSkipped = Append(@, podcast)]
     ELSE [plan EXCEPT !.newPodcasts = Append(@, podcast)]

\* The merge step without the else before newPodcasts.push: a duplicate is
\* also created.
ClassifyAlsoCreates(plan, podcast, existingMap, overwriteDuplicates) ==
  LET existingId == MapGet(existingMap, KeyOf(podcast))
  IN IF Truthy(existingId)
     THEN IF overwriteDuplicates
          THEN [plan EXCEPT !.podcastsToUpdate =
                  Append(@, [podcast |-> podcast, existingId |-> existingId]),
                            !.newPodcasts = Append(@, podcast)]
          ELSE [plan EXCEPT !.duplicatesSkipped = Append(@, podcast),
                            !.newPodcasts = Append(@, podcast)]
     ELSE [plan EXCEPT !.newPodcasts = Append(@, podcast)]

\* One round of podcasts.forEach: the record goes to exactly one list.
Classify(plan, podcast, existingMap, overwriteDuplicates) ==
  LET existingId == MapGet(existingMap, KeyOf(podcast))
  IN IF Truthy(existingId)
     THEN IF overwriteDuplicates
          THEN [plan EXCEPT !.podcastsToUpdate =
                  Append(@, [podcast |-> podcast, existingId |-> existingId])]
          ELSE [plan EXCEPT !.duplicatesSkipped = Append(@, podcast)]
     ELSE [plan EXCEPT !.newPodcasts = Append(@, podcast)]

\* The merge step that also remembers the keys of the file: a record whose
\* key an earlier record of the file had is skipped.
RECURSIVE PartitionOncePerKey(_, _, _, _, _)
PartitionOncePerKey(plan, podcasts, i, existingMap, overwriteDuplicates) ==
  IF i > Len(podcasts) THEN plan
  ELSE PartitionOncePerKey(
         IF \E j \in 1..(i - 1) : KeyOf(podcasts[j]) = KeyOf(podcasts[i])
         THEN [plan EXCEPT !.duplicatesSkipped = Append(@, podcasts[i])]
         ELSE Classify(plan, podcasts[i], existingMap, overwriteDuplicates),
         podcasts, i + 1, existingMap, overwriteDuplicates)

\* podcasts.forEach(...) from the i-th record on.
RECURSIVE Partition(_, _, _, _, _)
Partition(plan, podcasts, i, existingMap, overwriteDuplicates) ==
  IF i > Len(podcasts) THEN plan
  ELSE Partition(Classify(plan, podcasts[i], existingMap, overwriteDuplicates),
                 podcasts, i + 1, existingMap, overwriteDuplicates)

\* The number of error messages the report carries: errors.slice(0, 20).
MaxErrorMessages == 20

\* The error list without the slice.
FirstErrorsUncapped(errors) == errors

\* errors.slice(0, 20)
FirstErrors(errors) ==
  SubSeq(errors, 1, IF Len(errors) < MaxErrorMessages THEN Len(errors) ELSE MaxErrorMessages)

\* The object passed to res.json at the end of a successful import.
Report(req) ==
  [ success           |-> TRUE,
    imported          |-> Len(req.createdPodcasts),
    duplicatesSkipped |-> Len(req.duplicatesSkipped),
    updated           |-> Len(req.updatedPodcasts),
    errors            |-> Len(req.errors),
    errorMessages     |-> FirstErrors(req.errors),
    totalRows         |-> req.rowNumber,
    headers           |-> req.headers,
    podcasts          |-> req.createdPodcasts,
    updatedPodcasts   |-> req.updatedPodcasts,
    overwriteMode     |-> req.overwriteDuplicates ]

\* The 500 response of the handler's catch block.
ImportFailed == [status |-> 500, body |-> [message |-> "CSV import failed"]]

(***************************************************************************)
(* State                                                                   *)
(***************************************************************************)

VARIABLES
  db,        \* the podcasts table: a sequence of persisted records (with id)
  nextId,    \* the next value of the id column's default (a fresh id per insert)
  imports,   \* the POST /api/podcasts/import calls (their locals), the one served first
  pairA,     \* a (title, host) pair handed to createDeduplicationKey
  pairB,     \* a second (title, host) pair handed to createDeduplicationKey
  keys,      \* the results of the calls on pairA and pairB
  search,    \* a GET /api/podcasts call: its query, its filters, its response
  ipAttempts,        \* the Map ipAttempts: identifier -> reference to its AttemptData
  usernameAttempts,  \* the Map usernameAttempts: username -> reference to its AttemptData
  attemptData,       \* the AttemptData objects that have been put in one of the maps
  clock,             \* Date.now()
  logins,            \* the POST /api/login calls (their locals)
  history,           \* per key, the 401 responses ended since its last 2xx response
  initialized,       \* the flag of api/index.ts
  adminPassword,     \* whether process.env.ADMIN_PASSWORD is set
  registerCalls,     \* the number of calls of registerRoutes(app)
  invocations        \* the invocations of the serverless function

vars ==
  << db, nextId, imports, pairA, pairB, keys, search,
     ipAttempts, usernameAttempts, attemptData, clock, logins, history,
     initialized, adminPassword, registerCalls, invocations >>

pipelineVars == <<db, nextId, imports>>

keyVars == <<pairA, pairB, keys>>

searchVars == <<search>>

loginVars == <<ipAttempts, usernameAttempts, attemptData, clock, logins, history>>

serverlessVars == <<initialized, adminPassword, registerCalls, invocations>>

\* The state of the routes other than the import.
serviceVars == <<searchVars, loginVars, serverlessVars>>

\* No search call is being served.
NoSearch == [pc |-> "idle"]

SearchIdle == search = NoSearch

\* Nobody logs in: the maps of the rate limit are empty.
LoginIdle ==
  /\ ipAttempts = <<>>
  /\ usernameAttempts = <<>>
  /\ attemptData = <<>>
  /\ clock = 0
  /\ logins = <<>>
  /\ history = <<>>

\* The serverless function has not been invoked.
ServerlessIdle ==
  /\ initialized = FALSE
  /\ adminPassword = FALSE
  /\ registerCalls = 0
  /\ invocations = <<>>

ServicesIdle == SearchIdle /\ LoginIdle /\ ServerlessIdle

(***************************************************************************)
(* Bounded sets of strings                                                 *)
(***************************************************************************)

\* All strings over the characters cs of length at most n.
RECURSIVE StringsUpTo(_, _)
StringsUpTo(cs, n) ==
  IF n = 0 THEN {<<>>}
  ELSE LET shorter == StringsUpTo(cs, n - 1)
       IN shorter \cup {Append(s, c) : s \in {t \in shorter : Len(t) = n - 1}, c \in cs}

(***************************************************************************)
(* Calls of createDeduplicationKey on chosen inputs                        *)
(***************************************************************************)

NoKeys == [a |-> Undefined, b |-> Undefined, norm |-> Undefined, norm2 |-> Undefined]

\* createDeduplicationKey is called on both pairs; norm keeps normalize(title) of
\* the first pair, the left component of its key.
ComputeKeys ==
  /\ keys.a = Undefined
  /\ keys' = [keys EXCEPT !.a = createDeduplicationKey(pairA.title, pairA.host),
                          !.b = createDeduplicationKey(pairB.title, pairB.host),
                          !.norm = normalize(pairA.title)]
  /\ UNCHANGED <<pairA, pairB, pipelineVars, serviceVars>>

\* normalize is applied to a string that normalize produced (a stored key
\* component that is normalized again).
NormalizeAgain ==
  /\ keys.norm # Undefined
  /\ keys.norm2 = Undefined
  /\ keys' = [keys EXCEPT !.norm2 = normalize(keys.norm)]
  /\ UNCHANGED <<pairA, pairB, pipelineVars, serviceVars>>

KeyNext == ComputeKeys \/ NormalizeAgain

\* The pipeline at rest while the key function is exercised.
PipelineIdle ==
  /\ db = <<>>
  /\ nextId = 1
  /\ imports = <<>>

Pair(t, h) == [title |-> t, host |-> h]

\* --- inputs for idempotence -------------------------------------------------
MaxIdemLen == 5

IdemChars == {"a", "A", "x", " ", ","}

IdemInit ==
  /\ PipelineIdle
  /\ ServicesIdle
  /\ \E t \in StringsUpTo(IdemChars, MaxIdemLen) :
       /\ pairA = Pair(t, <<"x">>)
       /\ pairB = Pair(t, <<"x">>)
  /\ keys = NoKeys

SpecIdem == IdemInit /\ [][KeyNext]_vars

\* C6: normalize is idempotent: normalizing a string that normalize produced
\* gives the same string back, normalize(normalize(x)) = normalize(x).
NormalizeIdempotent ==
  keys.norm2 # Undefined => keys.norm2 = keys.norm

\* --- inputs for the leading article and for titles that differ by a letter --
MaxTitleLen == 4

ArticleChars == {"a", "n", "A", "x", " ", ","}

ArticleHosts == {<<"x">>, <<"A", " ", "x">>}

\* The literal "The " that is put in front of a title.
ThePrefix == <<"T", "h", "e", " ">>

Letters == {c \in ArticleChars : LowerChar(c) \in {LowerLetters[i] : i \in 1..Len(LowerLetters)}}

ArticleInit ==
  /\ PipelineIdle
  /\ ServicesIdle
  /\ \E t \in StringsUpTo(ArticleChars, MaxTitleLen), h \in ArticleHosts :
       \/ /\ pairA = Pair(ThePrefix \o t, h)
          /\ pairB = Pair(toLowerCase(t), h)
       \/ \E c \in Letters :
            /\ pairA = Pair(t, h)
            /\ pairB = Pair(Append(t, c), h)
  /\ keys = NoKeys

SpecArticle == ArticleInit /\ [][KeyNext]_vars

\* The title of pairA is "The " + T and the title of pairB is lowercase(T).
ArticleCase ==
  /\ keys.a # Undefined
  /\ pairA.host = pairB.host
  /\ StartsWith(pairA.title, ThePrefix)
  /\ pairB.title = toLowerCase(SubSeq(pairA.title, Len(ThePrefix) + 1, Len(pairA.title)))

\* The title of pairB is the title of pairA with one more letter at its end.
LetterCase ==
  /\ keys.a # Undefined
  /\ pairA.host = pairB.host
  /\ Len(pairB.title) = Len(pairA.title) + 1
  /\ SubSeq(pairB.title, 1, Len(pairA.title)) = pairA.title
  /\ pairB.title[Len(pairB.title)] \in Letters

\* The title as it reaches the article pattern: lowercased, trimmed, whitespace
\* collapsed, punctuation removed.
BeforeArticle(t) == RemovePunctuation(CollapseSpaces(trim(toLowerCase(t))))

\* The title does not itself begin with an article that the pattern removes.
NoLeadingArticle(t) == RemoveLeadingArticle(BeforeArticle(t)) = BeforeArticle(t)

MaxFormatLen == 5

MaxPlainLen == 3

FormatChars == {"a", "x", "X", " ", ","}

PlainChars == {"a", "x", " "}

FormatInit ==
  /\ PipelineIdle
  /\ ServicesIdle
  /\ \E t \in StringsUpTo(FormatChars, MaxFormatLen), u \in StringsUpTo(PlainChars, MaxPlainLen) :
       /\ pairA = Pair(t, <<"x">>)
       /\ pairB = Pair(u, <<"x">>)
  /\ keys = NoKeys

SpecFormat == FormatInit /\ [][KeyNext]_vars

\* The words of a string: its maximal runs of characters that are neither
\* whitespace nor punctuation, broken at whitespace only.
RECURSIVE SplitWords(_, _)
SplitWords(s, word) ==
  IF s = <<>> THEN (IF word = <<>> THEN <<>> ELSE <<word>>)
  ELSE IF s[1] \in WhitespaceChars
       THEN (IF word = <<>> THEN <<>> ELSE <<word>>) \o SplitWords(Tail(s), <<>>)
       ELSE IF s[1] \in PunctuationChars
            THEN SplitWords(Tail(s), word)
            ELSE SplitWords(Tail(s), Append(word, LowerChar(s[1])))

\* The words without one leading article.
ContentWords(s) ==
  LET ws == SplitWords(s, <<>>)
  IN IF Len(ws) >= 2 /\ \E k \in 1..Len(Articles) : ws[1] = Articles[k]
     THEN Tail(ws) ELSE ws

\* Two strings differ only in formatting: letter case, whitespace at the ends,
\* length of whitespace runs, punctuation characters, one leading article.
SameUpToFormatting(s, t) == ContentWords(s) = ContentWords(t)

\* C8: two (title, host) pairs that differ only in formatting have the same
\* identity key, wherever the punctuation stands relative to the whitespace.
FormattingDoesNotChangeKey ==
  ( /\ keys.a # Undefined
    /\ SameUpToFormatting(pairA.title, pairB.title)
    /\ SameUpToFormatting(pairA.host, pairB.host) ) => keys.a = keys.b

\* --- inputs for the separator ------------------------------------------------
MaxSepLen == 2

SepChars == {"x", "|"}

SepInit ==
  /\ PipelineIdle
  /\ ServicesIdle
  /\ \E t1 \in StringsUpTo(SepChars, MaxSepLen), h1 \in StringsUpTo(SepChars, MaxSepLen),
        t2 \in StringsUpTo(SepChars, MaxSepLen), h2 \in StringsUpTo(SepChars, MaxSepLen) :
       /\ pairA = Pair(t1, h1)
       /\ pairB = Pair(t2, h2)
  /\ keys = NoKeys

SpecSeparator == SepInit /\ [][KeyNext]_vars

\* C9: two records have the same identity key only when their normalized titles
\* are equal and their normalized hosts are equal (no false positives).
EqualKeysEqualComponents ==
  (keys.a # Undefined /\ keys.a = keys.b) =>
    /\ normalize(pairA.title) = normalize(pairB.title)
    /\ normalize(pairA.host) = normalize(pairB.host)

(***************************************************************************)
(* POST /api/podcasts/import (server/routes.ts)                            *)
(***************************************************************************)

NoResponse == [status |-> 0]

\* The locals of one call of the handler. file is the uploaded CSV as its
\* lines of cells (the header line first); line counts the lines the parser
\* has emitted; calls records the storage methods called, in order.
NewRequest(hasFile, file, overwrite) ==
  [ pc                  |-> "received",
    hasFile             |-> hasFile,
    file                |-> file,
    overwriteDuplicates |-> overwrite,
    podcasts            |-> <<>>,
    errors              |-> <<>>,
    rowNumber           |-> 0,
    headers             |-> <<>>,
    line                |-> 0,
    existingMap         |-> <<>>,
    newPodcasts         |-> <<>>,
    duplicatesSkipped   |-> <<>>,
    podcastsToUpdate    |-> <<>>,
    createdPodcasts     |-> <<>>,
    updatedPodcasts     |-> <<>>,
    nextUpdate          |-> 1,
    calls               |-> <<>>,
    response            |-> NoResponse ]

\* The handler starts: without req.file it answers 400, else it pipes the
\* buffer into csvParser().
StartImport(r) ==
  LET req == imports[r] IN
  /\ req.pc = "received"
  /\ imports' = [imports EXCEPT ![r] =
       IF req.hasFile
       THEN [req EXCEPT !.pc = "stream"]
       ELSE [req EXCEPT !.pc = "done",
                        !.response = [status |-> 400,
                                      body |-> [message |-> "No CSV file provided"]]]]
  /\ UNCHANGED <<db, nextId, keyVars, serviceVars>>

\* .on('headers', headerList => headers = headerList)
OnHeaders(r) ==
  LET req == imports[r] IN
  /\ req.pc = "stream"
  /\ req.line = 0
  /\ Len(req.file) > 0
  /\ imports' = [imports EXCEPT ![r] = [req EXCEPT !.headers = req.file[1], !.line = 1]]
  /\ UNCHANGED <<db, nextId, keyVars, serviceVars>>

\* The 'data' handler with a catch block that drops the row: a failing row is
\* counted and leaves no error.
OnDataDroppingFailures(r) ==
  LET req == imports[r]
      row == WriteRow(req.headers, req.file[req.line + 1], 1, <<>>)
      outcome == ProcessRow(row, req.rowNumber + 1)
  IN
  /\ req.pc = "stream"
  /\ req.line >= 1
  /\ req.line < Len(req.file)
  /\ imports' = [imports EXCEPT ![r] =
       IF outcome.ok
       THEN [req EXCEPT !.rowNumber = @ + 1, !.line = @ + 1,
                        !.podcasts = Append(@, outcome.podcast)]
       ELSE [req EXCEPT !.rowNumber = @ + 1, !.line = @ + 1]]
  /\ UNCHANGED <<db, nextId, keyVars, serviceVars>>

\* .on('data', row => ...): the next data line, as the row csv-parser builds.
OnData(r) ==
  LET req == imports[r]
      row == WriteRow(req.headers, req.file[req.line + 1], 1, <<>>)
      outcome == ProcessRow(row, req.rowNumber + 1)
  IN
  /\ req.pc = "stream"
  /\ req.line >= 1
  /\ req.line < Len(req.file)
  /\ imports' = [imports EXCEPT ![r] =
       IF outcome.ok
       THEN [req EXCEPT !.rowNumber = @ + 1, !.line = @ + 1,
                        !.podcasts = Append(@, outcome.podcast)]
       ELSE [req EXCEPT !.rowNumber = @ + 1, !.line = @ + 1,
                        !.errors = Append(@, outcome.error)]]
  /\ UNCHANGED <<db, nextId, keyVars, serviceVars>>

\* The promise resolved by the first event after the headers: the stream is
\* left before its last row.
OnEndBeforeLastRow(r) ==
  LET req == imports[r] IN
  /\ req.pc = "stream"
  /\ req.line >= 1
  /\ imports' = [imports EXCEPT ![r] = [req EXCEPT !.pc = "lookup"]]
  /\ UNCHANGED <<db, nextId, keyVars, serviceVars>>

\* .on('end', resolve)
OnEnd(r) ==
  LET req == imports[r] IN
  /\ req.pc = "stream"
  /\ req.line = Len(req.file)
  /\ imports' = [imports EXCEPT ![r] = [req EXCEPT !.pc = "lookup"]]
  /\ UNCHANGED <<db, nextId, keyVars, serviceVars>>

\* A stream error handled like a row error: it is pushed to errors and the
\* promise resolves.
OnStreamErrorAsRowError(r) ==
  LET req == imports[r] IN
  /\ req.pc = "stream"
  /\ imports' = [imports EXCEPT ![r] =
       [req EXCEPT !.pc = "lookup",
                   !.errors = Append(@, RowError(req.rowNumber, MissingField("stream", <<>>)))]]
  /\ UNCHANGED <<db, nextId, keyVars, serviceVars>>

\* .on('error', reject): the promise rejects and the catch block answers 500.
OnStreamError(r) ==
  LET req == imports[r] IN
  /\ req.pc = "stream"
  /\ imports' = [imports EXCEPT ![r] = [req EXCEPT !.pc = "done", !.response = ImportFailed]]
  /\ UNCHANGED <<db, nextId, keyVars, serviceVars>>

\* An entry of calls: the storage method, its argument, and whether the call
\* returned a result (it did not throw, and updatePodcast returned a podcast).
StorageCall(method, argument, ok) == [method |-> method, argument |-> argument, ok |-> ok]

TitleHostPairs(podcasts) ==
  [i \in 1..Len(podcasts) |-> [title |-> podcasts[i].title, host |-> podcasts[i].host]]

\* await storage.findPodcastsByTitleHost(titleHostPairs), then existingMap and
\* the three lists. The SELECT may throw (ok = FALSE): the catch block answers 500.
FindExisting(r) ==
  LET req == imports[r]
      titleHostPairs == TitleHostPairs(req.podcasts)
      Called(ok) == Append(req.calls, StorageCall("findPodcastsByTitleHost", titleHostPairs, ok))
  IN
  /\ req.pc = "lookup"
  /\ \E ok \in BOOLEAN, rows \in SelectOrders(db) :
       LET existingPodcasts == findPodcastsByTitleHost(rows, titleHostPairs)
           existingMap == ExistingMap(existingPodcasts)
           plan == Partition(EmptyPlan, req.podcasts, 1, existingMap, req.overwriteDuplicates)
       IN imports' = [imports EXCEPT ![r] =
            IF Len(titleHostPairs) > 0 /\ ~ok
            THEN [req EXCEPT !.pc = "done", !.response = ImportFailed, !.calls = Called(FALSE)]
            ELSE [req EXCEPT !.pc = "create",
                             !.calls = Called(TRUE),
                             !.existingMap = existingMap,
                             !.newPodcasts = plan.newPodcasts,
                             !.duplicatesSkipped = plan.duplicatesSkipped,
                             !.podcastsToUpdate = plan.podcastsToUpdate]]
  /\ UNCHANGED <<db, nextId, keyVars, serviceVars>>

\* await storage.bulkCreatePodcasts(newPodcasts): nothing is sent to the
\* database for an empty list; the INSERT may throw (ok = FALSE).
BulkCreate(r) ==
  LET req == imports[r]
      Called(ok) == Append(req.calls, StorageCall("bulkCreatePodcasts", req.newPodcasts, ok))
      inserted == InsertedRows(req.newPodcasts, nextId)
  IN
  /\ req.pc = "create"
  /\ \E ok \in BOOLEAN :
       IF Len(req.newPodcasts) > 0 /\ ~ok
       THEN /\ imports' = [imports EXCEPT ![r] =
                 [req EXCEPT !.pc = "done", !.response = ImportFailed, !.calls = Called(FALSE)]]
            /\ UNCHANGED <<db, nextId>>
       ELSE /\ imports' = [imports EXCEPT ![r] =
                 [req EXCEPT !.pc = "update", !.calls = Called(TRUE), !.createdPodcasts = inserted]]
            /\ db' = db \o inserted
            /\ nextId' = nextId + Len(inserted)
  /\ UNCHANGED <<keyVars, serviceVars>>

\* The update loop with an updatePodcast that lets the error of a failing UPDATE
\* through: the catch block of the handler answers 500.
UpdateNextAbortsOnFailure(r) ==
  LET req == imports[r]
      entry == req.podcastsToUpdate[req.nextUpdate]
      Called(ok) == Append(req.calls, StorageCall("updatePodcast", entry, ok))
  IN
  /\ req.pc = "update"
  /\ req.overwriteDuplicates
  /\ req.nextUpdate <= Len(req.podcastsToUpdate)
  /\ \E ok \in BOOLEAN :
       IF ok /\ HasRow(db, entry.existingId)
       THEN /\ db' = UpdatedTable(db, entry.existingId, entry.podcast)
            /\ imports' = [imports EXCEPT ![r] =
                 [req EXCEPT !.nextUpdate = @ + 1, !.calls = Called(TRUE),
                             !.updatedPodcasts =
                               Append(@, TableRow(entry.existingId, entry.podcast))]]
       ELSE /\ db' = db
            /\ imports' = [imports EXCEPT ![r] =
                 [req EXCEPT !.pc = "done", !.response = ImportFailed, !.calls = Called(FALSE)]]
  /\ UNCHANGED <<nextId, keyVars, serviceVars>>

\* One round of the update loop: await storage.updatePodcast(existingId,
\* podcast). updatePodcast catches a failing UPDATE (ok = FALSE) and returns
\* undefined, as it does when no row has the id.
UpdateNext(r) ==
  LET req == imports[r]
      entry == req.podcastsToUpdate[req.nextUpdate]
      Called(ok) == Append(req.calls, StorageCall("updatePodcast", entry, ok))
  IN
  /\ req.pc = "update"
  /\ req.overwriteDuplicates
  /\ req.nextUpdate <= Len(req.podcastsToUpdate)
  /\ \E ok \in BOOLEAN :
       IF ok /\ HasRow(db, entry.existingId)
       THEN /\ db' = UpdatedTable(db, entry.existingId, entry.podcast)
            /\ imports' = [imports EXCEPT ![r] =
                 [req EXCEPT !.nextUpdate = @ + 1, !.calls = Called(TRUE),
                             !.updatedPodcasts =
                               Append(@, TableRow(entry.existingId, entry.podcast))]]
       ELSE /\ db' = db
            /\ imports' = [imports EXCEPT ![r] =
                 [req EXCEPT !.nextUpdate = @ + 1, !.calls = Called(FALSE)]]
  /\ UNCHANGED <<nextId, keyVars, serviceVars>>

\* The report sent without waiting for the update loop to end.
RespondBeforeUpdates(r) ==
  LET req == imports[r] IN
  /\ req.pc = "update"
  /\ imports' = [imports EXCEPT ![r] =
       [req EXCEPT !.pc = "done", !.response = [status |-> 200, body |-> Report(req)]]]
  /\ UNCHANGED <<db, nextId, keyVars, serviceVars>>

\* res.json({ success: true, ... }) after the update loop.
Respond(r) ==
  LET req == imports[r] IN
  /\ req.pc = "update"
  /\ ~req.overwriteDuplicates \/ req.nextUpdate > Len(req.podcastsToUpdate)
  /\ imports' = [imports EXCEPT ![r] =
       [req EXCEPT !.pc = "done", !.response = [status |-> 200, body |-> Report(req)]]]
  /\ UNCHANGED <<db, nextId, keyVars, serviceVars>>

\* The steps of the import call r.
ImportStep(r) ==
  \/ StartImport(r)
  \/ OnHeaders(r)
  \/ OnData(r)
  \/ OnEnd(r)
  \/ OnStreamError(r)
  \/ FindExisting(r)
  \/ BulkCreate(r)
  \/ UpdateNext(r)
  \/ Respond(r)

\* One import call at a time.
Next == ImportStep(1)

KeysIdle ==
  /\ pairA = Pair(<<>>, <<>>)
  /\ pairB = Pair(<<>>, <<>>)
  /\ keys = NoKeys

(***************************************************************************)
(* Inputs of the import: uploaded files and tables                         *)
(***************************************************************************)

\* The header lines: canonical names; names matched without regard to case,
\* with a year column.
HeaderLines ==
  { << <<"t","i","t","l","e">>, <<"h","o","s","t">> >>,
    << <<"P","o","d","c","a","s","t"," ","T","i","t","l","e">>, <<"h","O","S","T">>, <<"Y","e","a","r">> >> }

\* The data lines: "Ab" by "x"; the same podcast in another formatting
\* ("The ab!" by " X "); a line without title; a line whose host is blank; another
\* podcast with a year that does not parse; a line that ends before the host.
DataLines ==
  { << <<"A","b">>, <<"x">> >>,
    << <<"T","h","e"," ","a","b","!">>, <<" ","X"," ">> >>,
    << <<>>, <<"x">> >>,
    << <<"A","b">>, <<" ">> >>,
    << <<"C","d">>, <<"x">>, <<"y","2","0">> >>,
    << <<"A","b">> >> }

MaxRows == 2

\* All sequences over S of length at most n.
RECURSIVE SeqsUpTo(_, _)
SeqsUpTo(S, n) ==
  IF n = 0 THEN {<<>>}
  ELSE LET shorter == SeqsUpTo(S, n - 1)
       IN shorter \cup {Append(q, x) : q \in {t \in shorter : Len(t) = n - 1}, x \in S}

\* An uploaded file: a header line and at most MaxRows data lines.
Files == {<<h>> \o d : h \in HeaderLines, d \in SeqsUpTo(DataLines, MaxRows)}

\* The record an earlier import stored for a line with this title and host.
Stored(id, title, host) ==
  TableRow(id, PodcastData(WriteRow(<< <<"t","i","t","l","e">>, <<"h","o","s","t">> >>, <<title, host>>, 1, <<>>)))

\* The tables an import may find: empty; one podcast; two rows with one identity
\* key (created before the duplicate check existed, or by overlapping imports).
Tables ==
  { <<>>,
    << Stored(FreshId(1), <<"A","b">>, <<"x">>) >>,
    << Stored(FreshId(1), <<"A","b">>, <<"x">>),
       Stored(FreshId(2), <<"A","B",".">>, <<"X">>) >> }

Init ==
  /\ db \in Tables
  /\ nextId = Len(db) + 1
  /\ \E overwrite \in BOOLEAN :
       \/ \E f \in Files : imports = << NewRequest(TRUE, f, overwrite) >>
       \/ imports = << NewRequest(FALSE, <<>>, overwrite) >>
  /\ KeysIdle
  /\ ServicesIdle

Spec == Init /\ [][Next]_vars

\* --- files with many failing rows -------------------------------------------
MaxFailingRows == 21

\* A line whose title is missing, and a line that validates.
FailingLine == << <<>>, <<"x">> >>

ValidLine == << <<"A","b">>, <<"x">> >>

\* Files of n data lines, n from just below the cap of the report up to
\* MaxFailingRows, all failing but at most one (line v).
ManyRowsFiles ==
  { << << <<"t","i","t","l","e">>, <<"h","o","s","t">> >> >> \o [i \in 1..n |-> IF i = v THEN ValidLine ELSE FailingLine] :
      n \in (MaxErrorMessages - 2)..MaxFailingRows, v \in 0..MaxFailingRows }

ManyRowsInit ==
  /\ db \in {t \in Tables : Len(t) <= 1}
  /\ nextId = Len(db) + 1
  /\ \E f \in ManyRowsFiles, overwrite \in BOOLEAN :
       imports = << NewRequest(TRUE, f, overwrite) >>
  /\ KeysIdle
  /\ ServicesIdle

SpecManyRows == ManyRowsInit /\ [][Next]_vars

(***************************************************************************)
(* Properties of the import                                                *)
(***************************************************************************)

TheImport == imports[1]

\* The import has answered with its report.
Reported == TheImport.pc = "done" /\ TheImport.response.status = 200

TheReport == TheImport.response.body

\* The three lists have been filled and nothing has been written yet: the
\* table is the one the duplicate check read.
Planned == TheImport.pc = "create"

\* The number of times x occurs in the list.
Count(list, x) == Cardinality({i \in 1..Len(list) : list[i] = x})

\* The records of the update list, without the ids they are paired with.
UpdatePodcasts(req) == [i \in 1..Len(req.podcastsToUpdate) |-> req.podcastsToUpdate[i].podcast]

\* Some persisted record has the identity key of the record.
KeyPersisted(podcast) == \E j \in 1..Len(db) : KeyOf(db[j]) = KeyOf(podcast)

\* C1: in every report imported + updated + duplicatesSkipped + errors equals
\* totalRows, whatever the storage calls returned.
ReportCountsSumToTotalRows ==
  Reported =>
    TheReport.imported + TheReport.updated + TheReport.duplicatesSkipped + TheReport.errors
      = TheReport.totalRows

\* C2: with overwrite=false every validated record whose key some persisted
\* record has is in duplicatesSkipped, in neither other list, and
\* storage's update is never called.
SkipsDuplicatesWithoutOverwrite ==
  ~TheImport.overwriteDuplicates =>
    /\ \A i \in 1..Len(TheImport.calls) : TheImport.calls[i].method # "updatePodcast"
    /\ Planned =>
         \A i \in 1..Len(TheImport.podcasts) :
           LET podcast == TheImport.podcasts[i] IN
           KeyPersisted(podcast) =>
             /\ Count(TheImport.duplicatesSkipped, podcast) = Count(TheImport.podcasts, podcast)
             /\ Count(TheImport.newPodcasts, podcast) = 0
             /\ Count(UpdatePodcasts(TheImport), podcast) = 0

\* A record in another formatting than the persisted one has been skipped.
SkipWitness ==
  /\ Planned
  /\ ~TheImport.overwriteDuplicates
  /\ \E i \in 1..Len(TheImport.duplicatesSkipped) :
       /\ KeyPersisted(TheImport.duplicatesSkipped[i])
       /\ \A j \in 1..Len(db) : db[j].title # TheImport.duplicatesSkipped[i].title

\* C3: with overwrite=true every validated record whose key some persisted
\* record has is in the update list, paired with the id of a persisted record
\* that has its key, and in neither other list.
UpdatesDuplicatesWithOverwrite ==
  (TheImport.overwriteDuplicates /\ Planned) =>
    /\ \A i \in 1..Len(TheImport.podcasts) :
         LET podcast == TheImport.podcasts[i] IN
         KeyPersisted(podcast) =>
           /\ Count(UpdatePodcasts(TheImport), podcast) = Count(TheImport.podcasts, podcast)
           /\ Count(TheImport.newPodcasts, podcast) = 0
           /\ Count(TheImport.duplicatesSkipped, podcast) = 0
    /\ \A i \in 1..Len(TheImport.podcastsToUpdate) :
         LET entry == TheImport.podcastsToUpdate[i] IN
         \E j \in 1..Len(db) :
           db[j].id = entry.existingId /\ KeyOf(db[j]) = KeyOf(entry.podcast)

\* Two persisted rows have the key of a record of the update list.
UpdateWitness ==
  /\ Planned
  /\ TheImport.overwriteDuplicates
  /\ \E i \in 1..Len(TheImport.podcastsToUpdate) :
       Cardinality({j \in 1..Len(db) :
                      KeyOf(db[j]) = KeyOf(TheImport.podcastsToUpdate[i].podcast)}) = 2

\* C4: the merge step puts every validated record in exactly one of the three
\* lists, and in the create list if and only if no persisted record has its key.
PartitionIsExact ==
  Planned =>
    /\ Len(TheImport.newPodcasts) + Len(TheImport.podcastsToUpdate)
         + Len(TheImport.duplicatesSkipped) = Len(TheImport.podcasts)
    /\ \A i \in 1..Len(TheImport.podcasts) :
         LET podcast == TheImport.podcasts[i]
             created == Count(TheImport.newPodcasts, podcast)
             updated == Count(UpdatePodcasts(TheImport), podcast)
             skipped == Count(TheImport.duplicatesSkipped, podcast)
         IN /\ created + updated + skipped = Count(TheImport.podcasts, podcast)
            /\ Cardinality({n \in {created, updated, skipped} : n > 0}) = 1
            /\ created > 0 <=> ~KeyPersisted(podcast)

\* Records went to the create list and to one of the other lists in one import.
PartitionWitness ==
  /\ Planned
  /\ Len(TheImport.newPodcasts) > 0
  /\ Len(TheImport.podcastsToUpdate) + Len(TheImport.duplicatesSkipped) > 0

\* The row csv-parser builds for the k-th data line of the file.
DataRow(req, k) == WriteRow(req.file[1], req.file[k + 1], 1, <<>>)

\* The resolved title or the resolved host of the k-th data row is missing.
LacksTitleOrHost(req, k) ==
  \/ Missing(getColumnValue(DataRow(req, k), titleColumns))
  \/ Missing(getColumnValue(DataRow(req, k), hostColumns))

\* The data rows among the first n that failed, in row order.
FailedRows(req, n) ==
  LET Failed(k) == ~ProcessRow(DataRow(req, k), k).ok
  IN SelectSeq([k \in 1..n |-> k], Failed)

\* C5: the report's errorMessages are exactly the first min(20, n) row errors
\* in row order, n being the number of failed rows, and errors is n.
ErrorMessagesCapped ==
  Reported =>
    LET failed == FailedRows(TheImport, TheReport.totalRows)
        n == Len(failed)
    IN /\ TheReport.errors = n
       /\ Len(TheReport.errorMessages) = (IF n < 20 THEN n ELSE 20)
       /\ \A k \in 1..Len(TheReport.errorMessages) :
            TheReport.errorMessages[k] =
              ProcessRow(DataRow(TheImport, failed[k]), failed[k]).error

\* A report for a file in which more than 20 rows failed.
CapWitness ==
  /\ Reported
  /\ TheReport.errors > 20
  /\ Len(TheReport.errorMessages) = 20

\* The streaming has ended without a stream error.
StreamEnded == TheImport.pc \in {"lookup", "create", "update"} \/ Reported

\* C10: every data row whose resolved title or host is missing adds no candidate
\* and exactly one error that starts with "Row n", n being the row's position,
\* and the rows after it are still processed.
MissingFieldIsRowError ==
  LET lacking == {k \in 1..TheImport.rowNumber : LacksTitleOrHost(TheImport, k)}
  IN /\ \A k \in lacking :
          Cardinality({i \in 1..Len(TheImport.errors) :
                         /\ TheImport.errors[i].prefix = "Row "
                         /\ TheImport.errors[i].rowNumber = k}) = 1
     /\ Len(TheImport.podcasts) = TheImport.rowNumber - Cardinality(lacking)
     /\ Len(TheImport.errors) = Cardinality(lacking)
     /\ StreamEnded => TheImport.rowNumber = Len(TheImport.file) - 1

\* A row without host was followed by a row that gave a candidate.
RowErrorWitness ==
  /\ TheImport.rowNumber >= 2
  /\ Missing(getColumnValue(DataRow(TheImport, 1), hostColumns))
  /\ ~Missing(getColumnValue(DataRow(TheImport, 1), titleColumns))
  /\ ~LacksTitleOrHost(TheImport, 2)
  /\ Len(TheImport.errors) = 1
  /\ Len(TheImport.podcasts) = 1

\* The cells of the k-th data line that stand under a header which one of the
\* names matches without regard to case, each trimmed.
TrimmedCells(req, k, columnNames) ==
  { trim(req.file[k + 1][i]) :
      i \in { j \in 1..Len(req.file[k + 1]) :
                /\ j <= Len(req.file[1])
                /\ \E c \in 1..Len(columnNames) :
                     toLowerCase(req.file[1][j]) = toLowerCase(columnNames[c]) } }

\* The data rows read so far whose resolved title and host are both non-empty,
\* in row order.
RowsWithTitleAndHost(req) ==
  LET Has(k) == ~LacksTitleOrHost(req, k)
  IN SelectSeq([k \in 1..req.rowNumber |-> k], Has)

\* C11: every data row whose resolved title and host are non-empty adds exactly
\* one candidate, whose title and host are the trimmed cells, and no error.
ValidRowIsOneCandidate ==
  LET good == RowsWithTitleAndHost(TheImport)
  IN /\ Len(TheImport.podcasts) = Len(good)
     /\ \A j \in 1..Len(good) :
          j <= Len(TheImport.podcasts) =>
            /\ TheImport.podcasts[j].title # <<>>
            /\ TheImport.podcasts[j].host # <<>>
            /\ TheImport.podcasts[j].title \in TrimmedCells(TheImport, good[j], titleColumns)
            /\ TheImport.podcasts[j].host \in TrimmedCells(TheImport, good[j], hostColumns)
            /\ \A i \in 1..Len(TheImport.errors) : TheImport.errors[i].rowNumber # good[j]

\* The host cell " X " of the second row gave the candidate host "X", after a
\* first row that failed.
TrimmedWitness ==
  /\ TheImport.rowNumber = 2
  /\ Len(TheImport.errors) = 1
  /\ Len(TheImport.podcasts) = 1
  /\ TheImport.file[3][2] = <<" ", "X", " ">>
  /\ TheImport.podcasts[1].host = <<"X">>

(***************************************************************************)
(* Rows with and without the optional fields                               *)
(***************************************************************************)

MaxYearLen == 2

YearChars == {"2", "0", "y", " "}

\* title, host, Year, Country, LANGUAGE, status: names the resolver finds by
\* exact match and names it finds without regard to case.
FieldsHeader ==
  << <<"t","i","t","l","e">>, <<"h","o","s","t">>, <<"Y","e","a","r">>,
     <<"C","o","u","n","t","r","y">>, <<"L","A","N","G","U","A","G","E">>,
     <<"s","t","a","t","u","s">> >>

\* A line with every field: "Ab" by "x", then year, country, language, status.
FullLines ==
  { << <<"A","b">>, <<"x">>, year, country, language, status >> :
      year \in StringsUpTo(YearChars, MaxYearLen),
      country \in { <<>>, <<" ","I","t"," ">> },
      language \in { <<>>, <<"i","t">> },
      status \in { <<" ">>, <<"E","n","d","e","d">> } }

\* The lines, and the lines that end early: their last cells are absent.
FieldLines == { SubSeq(l, 1, n) : l \in FullLines, n \in 2..Len(FieldsHeader) }

FieldsInit ==
  /\ db \in {t \in Tables : Len(t) <= 1}
  /\ nextId = Len(db) + 1
  /\ \E l \in FieldLines, overwrite \in BOOLEAN :
       imports = << NewRequest(TRUE, <<FieldsHeader, l>>, overwrite) >>
  /\ KeysIdle
  /\ ServicesIdle

SpecFields == FieldsInit /\ [][Next]_vars

\* The value given for a field in the k-th data row: the non-empty trimmed cell
\* under its column; the empty set when the cell is absent or blank.
Given(req, k, columnNames) == TrimmedCells(req, k, columnNames) \ {<<>>}

\* The string is a decimal numeral: decimal digits only, at least one.
IsNumeral(s) == s # <<>> /\ \A i \in 1..Len(s) : IsDigit(s[i])

\* The integer a decimal numeral denotes.
NumeralValue(s) ==
  LET weight[i \in 0..Len(s)] == IF i = 0 THEN 1 ELSE 10 * weight[i - 1]
      sum[i \in 0..Len(s)] ==
        IF i = 0 THEN 0 ELSE sum[i - 1] + DigitValue(s[i]) * weight[Len(s) - i]
  IN sum[Len(s)]

\* No integer can be read from the string: no decimal digit at its start, after
\* an optional sign.
NoInteger(s) ==
  \/ s = <<>>
  \/ ~IsDigit(s[1]) /\ ~(s[1] \in {"+", "-"} /\ Len(s) >= 2 /\ IsDigit(s[2]))

\* The field of the candidate is the given value, or the default when none is given.
GivenOrDefault(value, given, dflt) ==
  IF given = {} THEN value = dflt ELSE value \in given

\* C12: a row with title and host never fails for an absent country, language,
\* status or year or for a year that is no integer: the candidate gets "Unknown",
\* "English", "Active" and the current year for these, and the given value otherwise.
AbsentFieldsGetDefaults ==
  LET good == RowsWithTitleAndHost(TheImport)
  IN /\ Len(TheImport.podcasts) = Len(good)
     /\ \A j \in 1..Len(good) :
          j <= Len(TheImport.podcasts) =>
            LET podcast == TheImport.podcasts[j]
                years == Given(TheImport, good[j], yearColumns)
            IN /\ GivenOrDefault(podcast.country, Given(TheImport, good[j], countryColumns),
                                 <<"U","n","k","n","o","w","n">>)
               /\ GivenOrDefault(podcast.language, Given(TheImport, good[j], languageColumns),
                                 <<"E","n","g","l","i","s","h">>)
               /\ GivenOrDefault(podcast.status, Given(TheImport, good[j], statusColumns),
                                 <<"A","c","t","i","v","e">>)
               /\ years = {} => podcast.year = CurrentYear
               /\ \A y \in years :
                    /\ IsNumeral(y) => podcast.year = NumeralValue(y)
                    /\ NoInteger(y) => podcast.year = CurrentYear

\* A candidate from a line that ends after a year that is no integer: all four
\* defaults at once.
DefaultsWitness ==
  /\ Len(TheImport.podcasts) = 1
  /\ Len(TheImport.file[2]) = 3
  /\ TheImport.file[2][3] = <<"y", "2">>
  /\ TheImport.podcasts[1].year = CurrentYear
  /\ TheImport.podcasts[1].country = <<"U","n","k","n","o","w","n">>
  /\ TheImport.podcasts[1].status = <<"A","c","t","i","v","e">>

(***************************************************************************)
(* Rows with a categories cell                                             *)
(***************************************************************************)

MaxCategoriesLen == 4

CategoriesChars == {"a", "b", ",", " "}

CategoriesHeader ==
  << <<"t","i","t","l","e">>, <<"h","o","s","t">>,
     <<"C","a","t","e","g","o","r","i","e","s">> >>

\* "Ab" by "x" without a categories cell, and with each cell over the characters.
CategoriesLines ==
  { << <<"A","b">>, <<"x">> >> } \cup
  { << <<"A","b">>, <<"x">>, cell >> : cell \in StringsUpTo(CategoriesChars, MaxCategoriesLen) }

CategoriesInit ==
  /\ db \in {t \in Tables : Len(t) <= 1}
  /\ nextId = Len(db) + 1
  /\ \E l \in CategoriesLines, overwrite \in BOOLEAN :
       imports = << NewRequest(TRUE, <<CategoriesHeader, l>>, overwrite) >>
  /\ KeysIdle
  /\ ServicesIdle

SpecCategories == CategoriesInit /\ [][Next]_vars

\* The segments of a cell between its commas, in the order of the cell: the
\* n-th segment lies between the (n-1)-th and the n-th comma.
Segments(cell) ==
  LET commas == {i \in 1..Len(cell) : cell[i] = ","}
      edges == {0} \cup commas \cup {Len(cell) + 1}
      Edge(n) == CHOOSE e \in edges : Cardinality({d \in edges : d < e}) = n
  IN [n \in 1..(Cardinality(commas) + 1) |-> SubSeq(cell, Edge(n - 1) + 1, Edge(n) - 1)]

\* The segments trimmed, the empty ones dropped, order and duplicates kept.
TrimmedSegments(cell) ==
  LET segments == Segments(cell)
      kept == {n \in 1..Len(segments) : trim(segments[n]) # <<>>}
      Kept(m) == CHOOSE n \in kept : Cardinality({o \in kept : o < n}) = m - 1
  IN [m \in 1..Cardinality(kept) |-> trim(segments[Kept(m)])]

\* C13: the candidate's categories are the categories cell split on commas, each
\* segment trimmed, empty segments dropped, order and duplicates kept; an absent
\* cell gives the empty list.
CategoriesAreTrimmedSegments ==
  LET good == RowsWithTitleAndHost(TheImport)
  IN \A j \in 1..Len(good) :
       j <= Len(TheImport.podcasts) =>
         LET given == Given(TheImport, good[j], categoriesColumns)
         IN /\ given = {} => TheImport.podcasts[j].categories = <<>>
            /\ \A cell \in given : TheImport.podcasts[j].categories = TrimmedSegments(cell)

\* "a,a," gave ["a", "a"]: the duplicate is kept, the empty last segment dropped.
CategoriesWitness ==
  /\ Len(TheImport.podcasts) = 1
  /\ Len(TheImport.file[2]) = 3
  /\ TheImport.file[2][3] = <<"a", ",", "a", ",">>
  /\ TheImport.podcasts[1].categories = << <<"a">>, <<"a">> >>

(***************************************************************************)
(* Files with two columns that may both give the title                     *)
(***************************************************************************)

\* Headers for the title: candidate names as they are listed, candidate names
\* in another case, and a name that only contains a candidate name.
TitleHeaders ==
  { <<"P","o","d","c","a","s","t"," ","T","i","t","l","e">>,
    <<"P","O","D","C","A","S","T"," ","T","I","T","L","E">>,
    <<"t","i","t","l","e">>,
    <<"T","I","T","L","E">>,
    <<"t","I","T","L","E">>,
    <<"s","u","b","t","i","t","l","e">> }

TitleCells == { <<>>, <<"A","b">>, <<"C","d">> }

\* Two title columns with different headers, then the host column.
ResolverFiles ==
  { << <<h1, h2, <<"h","o","s","t">> >>, <<c1, c2, <<"x">> >> >> :
      h1 \in TitleHeaders, h2 \in TitleHeaders, c1 \in TitleCells, c2 \in TitleCells } \
  { << <<h, h, <<"h","o","s","t">> >>, <<c1, c2, <<"x">> >> >> :
      h \in TitleHeaders, c1 \in TitleCells, c2 \in TitleCells }

ResolverInit ==
  /\ db \in {t \in Tables : Len(t) <= 1}
  /\ nextId = Len(db) + 1
  /\ \E f \in ResolverFiles, overwrite \in BOOLEAN :
       imports = << NewRequest(TRUE, f, overwrite) >>
  /\ KeysIdle
  /\ ServicesIdle

SpecResolver == ResolverInit /\ [][Next]_vars

\* What the resolver returned for the title of the only data row: the title of
\* the candidate, or no value when the row failed for its missing title.
ResolvedTitle ==
  IF Len(TheImport.podcasts) = 1 THEN TheImport.podcasts[1].title ELSE Undefined

\* The candidate names, by their place in the list, whose exact header has a
\* non-empty cell in the row.
ExactMatches(row, columnNames) ==
  { n \in 1..Len(columnNames) :
      Get(row, columnNames[n]) # Undefined /\ trim(Get(row, columnNames[n])) # <<>> }

\* C14: the resolver returns the first non-empty value found by exact header
\* match over the ordered names, matches without regard to case only when no
\* name has a non-empty exact match, never matches by substring, and returns no
\* value when nothing matches.
ResolverPrefersExactMatch ==
  TheImport.rowNumber = 1 =>
    LET row == DataRow(TheImport, 1)
        exact == ExactMatches(row, titleColumns)
        first == CHOOSE n \in exact : \A m \in exact : n <= m
    IN /\ exact # {} => ResolvedTitle = trim(Get(row, titleColumns[first]))
       /\ ResolvedTitle # Undefined => ResolvedTitle \in Given(TheImport, 1, titleColumns)
       /\ Given(TheImport, 1, titleColumns) = {} => ResolvedTitle = Undefined

(***************************************************************************)
(* Failures and the order of the storage calls                             *)
(***************************************************************************)

\* C15: when the CSV stream errors the import is aborted: the caller gets the
\* one error response and no report, no row error is added for it, and no
\* storage lookup, create or update is performed for the rows already read.
StreamErrorAbortsImport ==
  [][ OnStreamError(1) =>
        /\ imports'[1].pc = "done"
        /\ imports'[1].response = ImportFailed
        /\ imports'[1].errors = imports[1].errors
        /\ imports'[1].podcasts = imports[1].podcasts
        /\ imports'[1].calls = <<>>
        /\ db' = db ]_vars

\* The stream failed after a row had given a candidate.
StreamErrorWitness ==
  /\ TheImport.pc = "done"
  /\ TheImport.response.status = 500
  /\ TheImport.line <= Len(TheImport.file)
  /\ TheImport.calls = <<>>
  /\ Len(TheImport.podcasts) = 1
  /\ Len(TheImport.errors) = 1

\* C16: an import of an uploaded file whose stream did not fail (it went on to
\* the storage calls) ends with a report with success = true, whatever the
\* storage calls did.
ReportUnlessStreamFails ==
  (TheImport.pc = "done" /\ TheImport.hasFile /\ TheImport.calls # <<>>) =>
    /\ TheImport.response.status = 200
    /\ TheImport.response.body.success

IsUpdateCall(call) == call.method = "updatePodcast"

IsCreateCall(call) == call.method = "bulkCreatePodcasts"

\* The calls of updatePodcast so far, in order.
UpdateCalls(req) == SelectSeq(req.calls, IsUpdateCall)

\* The calls of updatePodcast that returned a podcast, in order.
SucceededUpdates(req) ==
  LET Succeeded(call) == IsUpdateCall(call) /\ call.ok
  IN SelectSeq(req.calls, Succeeded)

\* C17: when the update of one record fails that record alone is left out of
\* updatedPodcasts, the later records are still attempted, the import still
\* returns a report, and updated is the number of updates that succeeded.
UpdateFailureSkipsOneRecord ==
  LET succeeded == SucceededUpdates(TheImport)
  IN /\ TheImport.updatedPodcasts =
          [i \in 1..Len(succeeded) |->
             TableRow(succeeded[i].argument.existingId, succeeded[i].argument.podcast)]
     /\ (TheImport.pc = "done" /\ UpdateCalls(TheImport) # <<>>) => Reported
     /\ Reported =>
          /\ Len(UpdateCalls(TheImport)) = Len(TheImport.podcastsToUpdate)
          /\ TheReport.updated = Len(succeeded)
          /\ TheReport.updatedPodcasts = TheImport.updatedPodcasts

\* The first of two updates failed and the second succeeded.
UpdateFailureWitness ==
  /\ Reported
  /\ Len(UpdateCalls(TheImport)) = 2
  /\ ~UpdateCalls(TheImport)[1].ok
  /\ UpdateCalls(TheImport)[2].ok
  /\ TheReport.updated = 1

\* C18: bulk-create is called exactly once, with the whole create list, and
\* update once per entry of the update list, in list order, after bulk-create.
CreateOnceThenUpdatesInOrder ==
  LET calls == TheImport.calls
      creates == {i \in 1..Len(calls) : IsCreateCall(calls[i])}
      updates == {i \in 1..Len(calls) : IsUpdateCall(calls[i])}
      updateCalls == UpdateCalls(TheImport)
  IN /\ Cardinality(creates) <= 1
     /\ \A c \in creates : calls[c].argument = TheImport.newPodcasts
     /\ \A u \in updates : \E c \in creates : c < u
     /\ Len(updateCalls) <= Len(TheImport.podcastsToUpdate)
     /\ \A n \in 1..Len(updateCalls) :
          n <= Len(TheImport.podcastsToUpdate) =>
            updateCalls[n].argument = TheImport.podcastsToUpdate[n]
     /\ Reported =>
          /\ Cardinality(creates) = 1
          /\ Len(updateCalls) = Len(TheImport.podcastsToUpdate)

\* A report after one call of bulk-create for a record and one update.
CreateThenUpdateWitness ==
  /\ Reported
  /\ Len(TheImport.newPodcasts) = 1
  /\ Len(TheImport.podcastsToUpdate) = 1
  /\ Len(TheImport.calls) = 3
  /\ IsCreateCall(TheImport.calls[2])
  /\ IsUpdateCall(TheImport.calls[3])

(***************************************************************************)
(* The same CSV imported twice                                             *)
(***************************************************************************)

\* "Ab" by "x"; the same podcast in another formatting; a line without title;
\* another podcast.
RepeatLines ==
  { << <<"A","b">>, <<"x">> >>,
    << <<"T","h","e"," ","a","b","!">>, <<" ","X"," ">> >>,
    << <<>>, <<"x">> >>,
    << <<"C","d">>, <<"x">> >> }

MaxRepeatRows == 2

RepeatFiles ==
  { << << <<"t","i","t","l","e">>, <<"h","o","s","t">> >> >> \o d :
      d \in SeqsUpTo(RepeatLines, MaxRepeatRows) }

\* An empty table, and a table with "Ab" by "x" and a podcast no line names.
RepeatTables ==
  { <<>>,
    << Stored(FreshId(1), <<"A","b">>, <<"x">>),
       Stored(FreshId(2), <<"E","f">>, <<"x">>) >> }

\* Two calls, the one being served first: the second call imports the file of
\* the first, with overwrite=false.
RepeatInit ==
  /\ db \in RepeatTables
  /\ nextId = Len(db) + 1
  /\ \E f \in RepeatFiles, overwrite \in BOOLEAN :
       imports = << NewRequest(TRUE, f, overwrite), NewRequest(TRUE, f, FALSE) >>
  /\ KeysIdle
  /\ ServicesIdle

\* The second POST reaches the handler when the first has been answered: it
\* takes the place of the call being served.
NextCall ==
  /\ imports[1].pc = "done"
  /\ imports[2].pc = "received"
  /\ imports' = << imports[2], imports[1] >>
  /\ UNCHANGED <<db, nextId, keyVars, serviceVars>>

RepeatNext == ImportStep(1) \/ NextCall

SpecRepeat == RepeatInit /\ [][RepeatNext]_vars

\* The first call was answered with a report and the second call has been made.
FirstReported ==
  /\ imports[2].pc = "done"
  /\ imports[2].response.status = 200

\* The second call has been answered with a report.
SecondReported ==
  /\ imports[2].pc = "done"
  /\ imports[1].pc = "done"
  /\ imports[1].response.status = 200

\* The report of the second call.
SecondReport == imports[1].response.body

\* C19: after an import that returned its report, importing the same CSV again
\* with overwrite=false creates no record, counts every valid row in
\* duplicatesSkipped, and leaves the persisted set unchanged.
ReimportCreatesNothing ==
  /\ [](FirstReported /\ SecondReported =>
          /\ SecondReport.imported = 0
          /\ SecondReport.duplicatesSkipped = Len(imports[1].podcasts)
          /\ SecondReport.duplicatesSkipped = SecondReport.totalRows - SecondReport.errors
          /\ SecondReport.updated = 0)
  /\ [][FirstReported => db' = db]_vars

\* The first import created two records and the second skipped both rows.
ReimportWitness ==
  /\ FirstReported
  /\ SecondReported
  /\ imports[2].response.body.imported = 2
  /\ SecondReport.duplicatesSkipped = 2

\* Some candidate of the call has the identity key of the persisted record.
KeyIncoming(req, persisted) ==
  \E j \in 1..Len(req.podcasts) : KeyOf(req.podcasts[j]) = KeyOf(persisted)

\* C20: an import changes persisted records only through storage's update: with
\* overwrite=false no persisted record is modified or removed, storage only
\* gains records; with overwrite=true every persisted record whose key matches
\* no incoming record is left unchanged.
ImportOnlyUpdatesMatched ==
  [][ LET req == imports[1]
          calls == imports'[1].calls
      IN /\ Len(db') >= Len(db)
         /\ \A i \in 1..Len(db) :
              i <= Len(db') =>
                /\ ~req.overwriteDuplicates => db'[i] = db[i]
                /\ ~KeyIncoming(req, db[i]) => db'[i] = db[i]
                /\ db'[i] # db[i] =>
                     /\ Len(calls) = Len(req.calls) + 1
                     /\ IsUpdateCall(calls[Len(calls)])
                     /\ calls[Len(calls)].argument.existingId = db[i].id ]_vars

\* With overwrite=true "Ab" was updated, the podcast no line names is as it was,
\* and a record was created.
UpdateOnlyWitness ==
  /\ imports[1].overwriteDuplicates
  /\ imports[1].pc = "done"
  /\ Len(db) = 3
  /\ db[1].title = <<"T","h","e"," ","a","b","!">>
  /\ db[2] = Stored(FreshId(2), <<"E","f">>, <<"x">>)


(***************************************************************************)
(* GET /api/podcasts: searchPodcasts (server/storage.ts)                   *)
(***************************************************************************)

\* String.prototype.includes
Includes(s, sub) ==
  \E i \in 0..(Len(s) - Len(sub)) : SubSeq(s, i + 1, i + Len(sub)) = sub

LetterRank(c) == CHOOSE i \in 1..Len(LowerLetters) : LowerLetters[i] = c

\* String.prototype.localeCompare on strings of lower-case letters, where
\* the collation is the alphabetical order: negative, 0 or positive.
RECURSIVE localeCompare(_, _)
localeCompare(a, b) ==
  IF a = <<>> /\ b = <<>> THEN 0
  ELSE IF a = <<>> THEN -1
  ELSE IF b = <<>> THEN 1
  ELSE IF a[1] = b[1] THEN localeCompare(Tail(a), Tail(b))
  ELSE LetterRank(a[1]) - LetterRank(b[1])

\* The values of the sortBy enum of searchFiltersSchema.
SortTitle == <<"t","i","t","l","e">>

SortTitleDesc == <<"t","i","t","l","e","-","d","e","s","c">>

SortYear == <<"y","e","a","r">>

SortYearDesc == <<"y","e","a","r","-","d","e","s","c">>

SortEpisodes == <<"e","p","i","s","o","d","e","s">>

SortEpisodesDesc == <<"e","p","i","s","o","d","e","s","-","d","e","s","c">>

SortCountry == <<"c","o","u","n","t","r","y">>

SortByEnum ==
  {SortTitle, SortTitleDesc, SortYear, SortYearDesc, SortEpisodes, SortEpisodesDesc, SortCountry}

\* cleanQuery of the route: a blank string and a falsy value become undefined.
cleanQuery(value) ==
  IF value = Undefined \/ trim(value) = <<>> THEN Undefined ELSE value

\* req.query.categories: absent or '' gives undefined, a string is split on
\* commas and its empty pieces dropped.
CategoriesFilter(value) ==
  IF value = Undefined \/ value = <<>> THEN Undefined
  ELSE SelectSeq(SplitOnComma(value, <<>>), IsNonEmpty)

\* The object handed to searchFiltersSchema.parse.
RawFilters(query) ==
  [ query         |-> cleanQuery(query.query),
    episodeLength |-> cleanQuery(query.episodeLength),
    categories    |-> CategoriesFilter(query.categories),
    status        |-> cleanQuery(query.status),
    country       |-> cleanQuery(query.country),
    sortBy        |-> cleanQuery(query.sortBy) ]

\* searchFiltersSchema.parse succeeds: sortBy is absent or a value of the enum.
FiltersParse(filters) == filters.sortBy = Undefined \/ filters.sortBy \in SortByEnum

\* The comparator of the sort: the switch on filters.sortBy, whose default
\* case compares every pair equal.
Compare(sortBy, a, b) ==
  IF sortBy = SortTitle THEN localeCompare(a.title, b.title)
  ELSE IF sortBy = SortTitleDesc THEN localeCompare(b.title, a.title)
  ELSE IF sortBy = SortYear THEN a.year - b.year
  ELSE IF sortBy = SortYearDesc THEN b.year - a.year
  ELSE IF sortBy = SortCountry THEN localeCompare(a.country, b.country)
  ELSE 0

\* Array.prototype.sort is stable: x goes behind every element that does not
\* compare greater than it.
RECURSIVE InsertInOrder(_, _, _)
InsertInOrder(sorted, x, sortBy) ==
  IF sorted = <<>> THEN <<x>>
  ELSE IF Compare(sortBy, sorted[Len(sorted)], x) <= 0 THEN Append(sorted, x)
  ELSE Append(InsertInOrder(SubSeq(sorted, 1, Len(sorted) - 1), x, sortBy),
              sorted[Len(sorted)])

RECURSIVE SortBy(_, _, _)
SortBy(results, sortBy, sorted) ==
  IF results = <<>> THEN sorted
  ELSE SortBy(Tail(results), sortBy, InsertInOrder(sorted, Head(results), sortBy))

\* The text search: the lower-cased query is contained in the title, the host,
\* the country, the description (when there is one) or a category.
MatchesQuery(p, filterQuery) ==
  LET query == toLowerCase(filterQuery)
  IN \/ Includes(toLowerCase(p.title), query)
     \/ Includes(toLowerCase(p.host), query)
     \/ Includes(toLowerCase(p.country), query)
     \/ (p.description # Undefined /\ Includes(toLowerCase(p.description), query))
     \/ \E i \in 1..Len(p.categories) : Includes(toLowerCase(p.categories[i]), query)

\* The chain of filters of searchPodcasts.
Matches(p, filters) ==
  /\ Truthy(filters.query) => MatchesQuery(p, filters.query)
  /\ Truthy(filters.episodeLength) => p.episodeLength = filters.episodeLength
  /\ Truthy(filters.categories) =>
       \E i \in 1..Len(filters.categories), j \in 1..Len(p.categories) :
         p.categories[j] = filters.categories[i]
  /\ Truthy(filters.status) => p.status = filters.status
  /\ Truthy(filters.country) => p.country = filters.country

\* searchPodcasts on the rows in the order the select returned them.
searchPodcasts(allPodcasts, filters) ==
  LET results == SelectSeq(allPodcasts, LAMBDA p : Matches(p, filters))
  IN IF Truthy(filters.sortBy) THEN SortBy(results, filters.sortBy, <<>>) ELSE results

\* The 400 response of the route's catch block.
InvalidSearch == [status |-> 400, body |-> [message |-> "Invalid search parameters"]]

\* The route reads req.query and parses the filters; a sortBy outside the enum
\* is answered 400.
ParseSearch ==
  /\ search.pc = "received"
  /\ LET filters == RawFilters(search.query)
     IN IF FiltersParse(filters)
        THEN search' = [search EXCEPT !.pc = "parsed", !.filters = filters]
        ELSE search' = [search EXCEPT !.pc = "done", !.response = InvalidSearch]
  /\ UNCHANGED <<pipelineVars, keyVars, loginVars, serverlessVars>>

\* storage.searchPodcasts(filters) and res.json(podcasts): the select has no
\* ORDER BY, the rows arrive in an order of the database's choosing.
SearchPodcasts ==
  /\ search.pc = "parsed"
  /\ \E allPodcasts \in SelectOrders(db) :
       search' = [search EXCEPT
                    !.pc = "done",
                    !.response = [status |-> 200,
                                  body |-> searchPodcasts(allPodcasts, search.filters)]]
  /\ UNCHANGED <<pipelineVars, keyVars, loginVars, serverlessVars>>

SearchNext == ParseSearch \/ SearchPodcasts

\* --- the directory and the queries of the search ------------------------------
ListingHeader ==
  << <<"t","i","t","l","e">>, <<"h","o","s","t">>, <<"c","o","u","n","t","r","y">>,
     <<"y","e","a","r">>, <<"e","p","i","s","o","d","e","s">>,
     <<"c","a","t","e","g","o","r","i","e","s">> >>

\* The records of the directory: title, host, country, year, episodes, categories.
Listings ==
  { << <<"a","b">>, <<"x">>, <<"i","t">>, <<"2","0","2","0">>, <<"2">>, <<"w","i","n","e">> >>,
    << <<"b">>, <<"y">>, <<"f","r">>, <<"2","0","1","9">>, <<"1">>, <<"f","o","o","d">> >>,
    << <<"a">>, <<"x">>, <<"i","t">>, <<"2","0","2","1">>, <<"3">>, <<"w","i","n","e",",","f","o","o","d">> >> }

Listed(id, cells) == TableRow(id, PodcastData(WriteRow(ListingHeader, cells, 1, <<>>)))

MaxPodcasts == 3

\* The tables of at most MaxPodcasts records.
SearchTables ==
  { [i \in 1..Len(cs) |-> Listed(FreshId(i), cs[i])] : cs \in SeqsUpTo(Listings, MaxPodcasts) }

NoFilter ==
  [ query |-> Undefined, episodeLength |-> Undefined, categories |-> Undefined,
    status |-> Undefined, country |-> Undefined, sortBy |-> Undefined ]

\* A call that has arrived: neither filters nor a response yet.
NewSearch(query) ==
  [pc |-> "received", query |-> query, filters |-> NoFilter, response |-> [status |-> 0]]

\* The query strings: every sortBy of the enum, one outside it, a blank one,
\* alone or with one of the filters.
SearchQueries ==
  { [f EXCEPT !.sortBy = s] :
      s \in SortByEnum \cup {Undefined, <<" ">>, <<"r","a","t","i","n","g">>},
      f \in { NoFilter,
              [NoFilter EXCEPT !.query = <<"A">>],
              [NoFilter EXCEPT !.country = <<"i","t">>],
              [NoFilter EXCEPT !.categories = <<"f","o","o","d",",">>],
              [NoFilter EXCEPT !.status = <<"A","c","t","i","v","e">>, !.episodeLength = <<"3","0">>] } }

SearchInit ==
  /\ db \in SearchTables
  /\ nextId = Len(db) + 1
  /\ imports = <<>>
  /\ KeysIdle
  /\ LoginIdle
  /\ ServerlessIdle
  /\ \E q \in SearchQueries : search = NewSearch(q)

SpecSearch == SearchInit /\ [][SearchNext]_vars

\* --- C21 ------------------------------------------------------------------------
TheResults == search.response.body

Answered(sortBy) ==
  /\ search.pc = "done"
  /\ search.response.status = 200
  /\ search.filters.sortBy = sortBy

\* C21: a search with sortBy "episodes" is answered with the podcasts in
\* ascending order of their episodes field, one with sortBy "episodes-desc" in
\* descending order, as a search by title, year or country is ordered by its
\* field.
SearchOrdersByEpisodes ==
  /\ Answered(SortEpisodes) =>
       \A i, j \in 1..Len(TheResults) :
         i < j => parseInt(TheResults[i].episodes) <= parseInt(TheResults[j].episodes)
  /\ Answered(SortEpisodesDesc) =>
       \A i, j \in 1..Len(TheResults) :
         i < j => parseInt(TheResults[i].episodes) >= parseInt(TheResults[j].episodes)

\* The sort keys that have a case in the comparator do order the results.
SearchOrdersByYear ==
  /\ Answered(SortYear) =>
       \A i, j \in 1..Len(TheResults) : i < j => TheResults[i].year <= TheResults[j].year
  /\ Answered(SortYearDesc) =>
       \A i, j \in 1..Len(TheResults) : i < j => TheResults[i].year >= TheResults[j].year


\* --- C22 ------------------------------------------------------------------------
\* The records of the list that have the identity key of the record, in order.
WithKey(list, podcast) == SelectSeq(list, LAMBDA p : KeyOf(p) = KeyOf(podcast))

\* The record's key occurs more than once among the validated records.
RepeatedInFile(req, podcast) == Len(WithKey(req.podcasts, podcast)) >= 2

\* The entries of the update list for the key of the record, in order.
UpdatesWithKey(req, podcast) ==
  SelectSeq(req.podcastsToUpdate, LAMBDA entry : KeyOf(entry.podcast) = KeyOf(podcast))

\* The updatePodcast calls made for the key of the record, in order.
UpdateCallsWithKey(req, podcast) ==
  SelectSeq(req.calls,
            LAMBDA call : /\ call.method = "updatePodcast"
                          /\ KeyOf(call.argument.podcast) = KeyOf(podcast))

\* C22: the valid rows of one file that share an identity key are each checked
\* against the persisted records only. When no persisted record has the key all
\* of them go to the create list and all are inserted; when one has, all are
\* skipped (overwrite=false) or all are paired with the id of one and the same
\* persisted record in row order (overwrite=true), the updates are issued in
\* row order, and after the last of them succeeded that record holds the
\* values of the later row.
RowsOfOneFileAreNotCompared ==
  \A i \in 1..Len(TheImport.podcasts) :
    LET podcast == TheImport.podcasts[i]
        rows == WithKey(TheImport.podcasts, podcast)
        entries == UpdatesWithKey(TheImport, podcast)
        issued == UpdateCallsWithKey(TheImport, podcast)
    IN RepeatedInFile(TheImport, podcast) =>
         /\ (Planned /\ ~KeyPersisted(podcast)) =>
              WithKey(TheImport.newPodcasts, podcast) = rows
         /\ (Planned /\ KeyPersisted(podcast) /\ ~TheImport.overwriteDuplicates) =>
              WithKey(TheImport.duplicatesSkipped, podcast) = rows
         /\ (Planned /\ KeyPersisted(podcast) /\ TheImport.overwriteDuplicates) =>
              /\ [k \in 1..Len(entries) |-> entries[k].podcast] = rows
              /\ \A k \in 1..Len(entries) : entries[k].existingId = entries[1].existingId
         /\ (Reported /\ Len(WithKey(TheImport.newPodcasts, podcast)) > 0) =>
              Len(WithKey(db, podcast)) = Len(rows)
         /\ (Reported /\ Len(entries) > 0) =>
              /\ [k \in 1..Len(issued) |-> issued[k].argument.podcast] = rows
              /\ issued[Len(issued)].ok =>
                   \E j \in 1..Len(db) :
                     db[j] = TableRow(entries[1].existingId, rows[Len(rows)])

\* The file held "Ab" by "x" and then "The ab!" by " X ", a persisted record
\* had their key, and after both updates it has the title and the (trimmed)
\* host of the second row.
SameKeyRowsWitness ==
  /\ Reported
  /\ TheImport.overwriteDuplicates
  /\ Len(TheImport.podcasts) = 2
  /\ TheImport.podcasts[1].title = <<"A","b">>
  /\ TheImport.podcasts[2].title = <<"T","h","e"," ","a","b","!">>
  /\ Len(TheImport.updatedPodcasts) = 2
  /\ \E j \in 1..Len(db) :
       /\ db[j].id = TheImport.podcastsToUpdate[1].existingId
       /\ db[j].id = TheImport.podcastsToUpdate[2].existingId
       /\ db[j].title = <<"T","h","e"," ","a","b","!">>
       /\ db[j].host = <<"X">>


\* --- C23 ------------------------------------------------------------------------
\* The handler is still reading the upload.
Streaming == TheImport.pc \in {"received", "stream"}

\* The data rows among the first n that validated, in row order.
ValidRows(req, n) ==
  LET Valid(k) == ProcessRow(DataRow(req, k), k).ok
  IN SelectSeq([k \in 1..n |-> k], Valid)

\* The rows read so far have been processed one by one in file order: the
\* candidates are the outcomes of the valid ones, the errors those of the
\* others.
ProcessedInFileOrder ==
  LET valid == ValidRows(TheImport, TheImport.rowNumber)
      failed == FailedRows(TheImport, TheImport.rowNumber)
  IN /\ TheImport.podcasts =
          [k \in 1..Len(valid) |-> ProcessRow(DataRow(TheImport, valid[k]), valid[k]).podcast]
     /\ TheImport.errors =
          [k \in 1..Len(failed) |-> ProcessRow(DataRow(TheImport, failed[k]), failed[k]).error]

\* C23: while the upload is read no storage method is called and the table is
\* not written, the rows are processed one at a time in file order, and when a
\* storage method has been called every data row of the file has been
\* classified.
NoStorageCallBeforeStreamEnd ==
  /\ [](Streaming => TheImport.calls = <<>>)
  /\ [](TheImport.calls # <<>> => TheImport.rowNumber = Len(TheImport.file) - 1)
  /\ []ProcessedInFileOrder
  /\ [][Streaming =>
          /\ db' = db
          /\ nextId' = nextId
          /\ imports'[1].calls = <<>>
          /\ imports'[1].rowNumber \in {TheImport.rowNumber, TheImport.rowNumber + 1}]_vars

\* The lookup was called after a failing row and a valid row had been read.
StorageAfterStreamWitness ==
  /\ Len(TheImport.calls) = 1
  /\ TheImport.calls[1].method = "findPodcastsByTitleHost"
  /\ TheImport.rowNumber = 2
  /\ Len(TheImport.errors) = 1
  /\ Len(TheImport.podcasts) = 1


\* --- C24 ------------------------------------------------------------------------
\* The list has grown by one element at its end.
GrownByOne(before, after) ==
  Len(after) = Len(before) + 1 /\ SubSeq(after, 1, Len(before)) = before

\* C24: at every point of the import the candidates and the errors together
\* are as many as the rows counted; a step that counts a data row appends one
\* element to exactly one of the two lists, every other step leaves both as
\* they are; and the report's totalRows is the number of data rows of the file.
CandidatesAndErrorsCountRows ==
  /\ [](Len(TheImport.podcasts) + Len(TheImport.errors) = TheImport.rowNumber)
  /\ [](Reported => TheReport.totalRows = Len(TheImport.file) - 1)
  /\ [][IF imports'[1].rowNumber = TheImport.rowNumber + 1
        THEN \/ /\ GrownByOne(TheImport.podcasts, imports'[1].podcasts)
                /\ imports'[1].errors = TheImport.errors
             \/ /\ GrownByOne(TheImport.errors, imports'[1].errors)
                /\ imports'[1].podcasts = TheImport.podcasts
        ELSE /\ imports'[1].rowNumber = TheImport.rowNumber
             /\ imports'[1].podcasts = TheImport.podcasts
             /\ imports'[1].errors = TheImport.errors]_vars

\* A report for a file of two data rows, one of which became a candidate and
\* one an error.
RowCountWitness ==
  /\ Reported
  /\ TheReport.totalRows = 2
  /\ Len(TheImport.podcasts) = 1
  /\ TheReport.errors = 1


(***************************************************************************)
(* POST /api/login: the rate limit by IP and by username (server/auth.ts)  *)
(***************************************************************************)

\* 1000 ms, the unit of the backoff.
Second == 1000

\* maxDelay of calculateBackoffDelay: 15 minutes.
MaxBackoffDelay == 15 * 60 * 1000

\* thirtyMinutes of the cleanup timer.
ThirtyMinutes == 30 * 60 * 1000

\* Math.pow(2, n) for a natural n.
RECURSIVE Pow2(_)
Pow2(n) == IF n = 0 THEN 1 ELSE 2 * Pow2(n - 1)

\* A backoff that stays at one second.
calculateBackoffDelayFlat(attemptCount) == Second

\* calculateBackoffDelay
calculateBackoffDelay(attemptCount) ==
  LET baseDelay == Pow2(IF attemptCount - 1 > 0 THEN attemptCount - 1 ELSE 0) * Second
  IN IF baseDelay < MaxBackoffDelay THEN baseDelay ELSE MaxBackoffDelay

\* { count: 0, lastAttempt: 0, nextAllowedAttempt: 0 }
NoAttempts == [count |-> 0, lastAttempt |-> 0, nextAllowedAttempt |-> 0]

\* map.get(key) as a reference into attemptData, 0 when the map has no entry.
EntryRef(map, key) == IF key \in DOMAIN map THEN map[key] ELSE 0

\* map.set(key, reference)
MapSet(map, key, ref) ==
  [k \in DOMAIN map \cup {key} |-> IF k = key THEN ref ELSE map[k]]

\* map.delete(key)
MapDelete(map, key) == [k \in DOMAIN map \ {key} |-> map[k]]

\* The object a reference stands for; reference 0 is the object literal the
\* request created for itself.
DataOf(ref) == IF ref = 0 THEN NoAttempts ELSE attemptData[ref]

\* req.body?.username?.trim().toLowerCase()
UsernameOf(name) == IF name = Undefined THEN Undefined ELSE toLowerCase(trim(name))

\* A slot of logins that no request has taken yet.
NoLogin ==
  [ pc |-> "idle", identifier |-> "", name |-> Undefined, username |-> Undefined,
    now |-> 0, ipRef |-> 0, usernameRef |-> 0, tracked |-> FALSE,
    priorIp |-> 0, priorUsername |-> 0, status |-> 0, reachedHandler |-> FALSE ]

\* A request that has been answered: its locals are gone, the status code of
\* its response is kept, and whether the login handler ran.
Answered429 == [NoLogin EXCEPT !.pc = "done", !.status = 429]

AnsweredByHandler(req, status) ==
  [NoLogin EXCEPT !.pc = "done", !.status = status, !.reachedHandler = TRUE,
                  !.tracked = req.tracked]

\* The keys ipKeyGenerator gives the clients.
Identifiers == {"ip1", "ip2"}

\* The username fields of the request bodies: a name, the same name in another
\* spelling, another name, and none.
LoginNames == {<<"a","l">>, <<" ","A","L">>, <<"b","o">>, Undefined}

Usernames == {UsernameOf(name) : name \in LoginNames \ {Undefined}}

\* Who logs in from where: "al" from two addresses (in another spelling from
\* the second), "bo" from the first address, and a request without username.
Clients ==
  { [identifier |-> "ip1", name |-> <<"a","l">>],
    [identifier |-> "ip2", name |-> <<" ","A","L">>],
    [identifier |-> "ip1", name |-> <<"b","o">>],
    [identifier |-> "ip1", name |-> Undefined] }

\* A login request arrives (the slots are taken in order).
PostLogin(r) ==
  /\ logins[r].pc = "idle"
  /\ IF r = 1 THEN TRUE ELSE logins[r - 1].pc # "idle"
  /\ \E client \in Clients :
       logins' = [logins EXCEPT ![r] =
         [@ EXCEPT !.pc = "loginRateLimit", !.identifier = client.identifier,
                   !.name = client.name]]
  /\ UNCHANGED <<ipAttempts, usernameAttempts, attemptData, clock, history>>
  /\ UNCHANGED <<pipelineVars, keyVars, searchVars, serverlessVars>>

\* loginRateLimit (express-rate-limit, at most 10 requests per IP in 15
\* minutes): the request is passed on or answered 429; its window counters are
\* the library's own.
LoginRateLimit(r) ==
  /\ logins[r].pc = "loginRateLimit"
  /\ \/ logins' = [logins EXCEPT ![r] = [@ EXCEPT !.pc = "usernameRateLimit"]]
     \/ logins' = [logins EXCEPT ![r] = Answered429]
  /\ UNCHANGED <<ipAttempts, usernameAttempts, attemptData, clock, history>>
  /\ UNCHANGED <<pipelineVars, keyVars, searchVars, serverlessVars>>

\* now < ipData.nextAllowedAttempt || now < usernameData.nextAllowedAttempt
Blocked(now, ipData, usernameData) ==
  now < ipData.nextAllowedAttempt \/ now < usernameData.nextAllowedAttempt

\* The middleware with a block test that also counts the blocked attempt.
UsernameRateLimitCountingBlocked(r) ==
  LET req == logins[r]
      username == UsernameOf(req.name)
      ipRef == EntryRef(ipAttempts, req.identifier)
      usernameRef == EntryRef(usernameAttempts, username)
  IN
  /\ req.pc = "usernameRateLimit"
  /\ IF username = Undefined \/ username = <<>>
     THEN /\ logins' = [logins EXCEPT ![r] = [req EXCEPT !.pc = "handler"]]
          /\ UNCHANGED <<attemptData>>
     ELSE IF Blocked(clock, DataOf(ipRef), DataOf(usernameRef))
     THEN /\ logins' = [logins EXCEPT ![r] = [Answered429 EXCEPT !.tracked = TRUE]]
          /\ attemptData' =
               [ref \in DOMAIN attemptData |->
                  IF ref \in {ipRef, usernameRef}
                  THEN [attemptData[ref] EXCEPT !.count = @ + 1]
                  ELSE attemptData[ref]]
     ELSE /\ logins' = [logins EXCEPT ![r] =
               [req EXCEPT !.pc = "handler", !.username = username, !.now = clock,
                           !.ipRef = ipRef, !.usernameRef = usernameRef, !.tracked = TRUE,
                           !.priorIp = history.failedIp[req.identifier],
                           !.priorUsername = history.failedUsername[username]]]
          /\ UNCHANGED <<attemptData>>
  /\ UNCHANGED <<ipAttempts, usernameAttempts, clock, history>>
  /\ UNCHANGED <<pipelineVars, keyVars, searchVars, serverlessVars>>

\* The middleware of createUsernameRateLimit up to next(): without username
\* the request goes on unobserved; else now is read, the two AttemptData
\* objects are taken from the maps (or created), a blocked request is answered
\* 429 and any other goes on to the login handler with res.end wrapped.
UsernameRateLimit(r) ==
  LET req == logins[r]
      username == UsernameOf(req.name)
      ipRef == EntryRef(ipAttempts, req.identifier)
      usernameRef == EntryRef(usernameAttempts, username)
  IN
  /\ req.pc = "usernameRateLimit"
  /\ IF username = Undefined \/ username = <<>>
     THEN logins' = [logins EXCEPT ![r] = [req EXCEPT !.pc = "handler"]]
     ELSE IF Blocked(clock, DataOf(ipRef), DataOf(usernameRef))
     THEN logins' = [logins EXCEPT ![r] = [Answered429 EXCEPT !.tracked = TRUE]]
     ELSE logins' = [logins EXCEPT ![r] =
            [req EXCEPT !.pc = "handler", !.username = username, !.now = clock,
                        !.ipRef = ipRef, !.usernameRef = usernameRef, !.tracked = TRUE,
                        !.priorIp = history.failedIp[req.identifier],
                        !.priorUsername = history.failedUsername[username]]]
  /\ UNCHANGED <<ipAttempts, usernameAttempts, attemptData, clock, history>>
  /\ UNCHANGED <<pipelineVars, keyVars, searchVars, serverlessVars>>

\* The status codes of the login handler: 200 (logged in), 401 (authentication
\* failed), and 400 (invalid body), which stands for 500 as well: the wrapper
\* of res.end treats both alike.
LoginStatuses == {200, 400, 401}

\* data.count++; data.lastAttempt = now; data.nextAllowedAttempt = now +
\* calculateBackoffDelay(data.count)
Counted(data, now) ==
  [ count              |-> data.count + 1,
    lastAttempt        |-> now,
    nextAllowedAttempt |-> now + calculateBackoffDelay(data.count + 1) ]

\* The objects after the object of the reference has been counted up: an
\* object of the maps is changed in place, the request's own object is new
\* among them.
WithCounted(objects, ref, now) ==
  IF ref = 0 THEN Append(objects, Counted(NoAttempts, now))
  ELSE [objects EXCEPT ![ref] = Counted(@, now)]

\* The reference under which the counted object is put in the map.
CountedRef(objects, ref) == IF ref = 0 THEN Len(objects) + 1 ELSE ref

\* The wrapped res.end that resets the IP entry only.
EndLoginKeepingUsername(r, status) ==
  LET req == logins[r] IN
  /\ ipAttempts' = MapDelete(ipAttempts, req.identifier)
  /\ history' = [history EXCEPT !.failedIp[req.identifier] = 0,
                                !.failedUsername[req.username] = 0,
                                !.forgottenIps = @ \ {req.identifier},
                                !.forgottenUsernames = @ \ {req.username}]
  /\ UNCHANGED <<usernameAttempts, attemptData>>

\* The wrapped res.end on a 2xx status: both entries are deleted.
EndLoginSucceeded(r, status) ==
  LET req == logins[r] IN
  /\ ipAttempts' = MapDelete(ipAttempts, req.identifier)
  /\ usernameAttempts' = MapDelete(usernameAttempts, req.username)
  /\ history' = [history EXCEPT !.failedIp[req.identifier] = 0,
                                !.failedUsername[req.username] = 0,
                                !.forgottenIps = @ \ {req.identifier},
                                !.forgottenUsernames = @ \ {req.username}]
  /\ UNCHANGED attemptData

\* The wrapped res.end on status 401: both objects are counted up and put in
\* their maps.
EndLoginFailed(r, status) ==
  LET req == logins[r]
      afterIp == WithCounted(attemptData, req.ipRef, req.now)
  IN
  /\ attemptData' = WithCounted(afterIp, req.usernameRef, req.now)
  /\ ipAttempts' = MapSet(ipAttempts, req.identifier, CountedRef(attemptData, req.ipRef))
  /\ usernameAttempts' =
       MapSet(usernameAttempts, req.username, CountedRef(afterIp, req.usernameRef))
  /\ history' = [history EXCEPT !.failedIp[req.identifier] = @ + 1,
                                !.failedUsername[req.username] = @ + 1]

\* The login handler answers and res.end runs: the wrapper of the middleware
\* looks at the status code of a request it let through with a username.
LoginHandler(r) ==
  /\ logins[r].pc = "handler"
  /\ \E status \in LoginStatuses :
       /\ logins' = [logins EXCEPT ![r] = AnsweredByHandler(logins[r], status)]
       /\ IF logins[r].tracked /\ status = 401 THEN EndLoginFailed(r, status)
          ELSE IF logins[r].tracked /\ status >= 200 /\ status < 300
               THEN EndLoginSucceeded(r, status)
               ELSE UNCHANGED <<ipAttempts, usernameAttempts, attemptData, history>>
  /\ UNCHANGED clock
  /\ UNCHANGED <<pipelineVars, keyVars, searchVars, serverlessVars>>

\* The keys of the map whose object was last counted more than thirty minutes ago.
Stale(map) == {key \in DOMAIN map : clock - attemptData[map[key]].lastAttempt > ThirtyMinutes}

RECURSIVE DeleteAll(_, _)
DeleteAll(map, keySet) ==
  IF keySet = {} THEN map
  ELSE LET key == CHOOSE k \in keySet : TRUE
       IN DeleteAll(MapDelete(map, key), keySet \ {key})

\* The callback of setInterval: the stale entries of both maps are deleted.
CleanupAttempts ==
  /\ ~(Stale(ipAttempts) = {} /\ Stale(usernameAttempts) = {})
  /\ ipAttempts' = DeleteAll(ipAttempts, Stale(ipAttempts))
  /\ usernameAttempts' = DeleteAll(usernameAttempts, Stale(usernameAttempts))
  /\ history' = [history EXCEPT !.forgottenIps = @ \cup Stale(ipAttempts),
                                !.forgottenUsernames = @ \cup Stale(usernameAttempts)]
  /\ UNCHANGED <<attemptData, clock, logins>>
  /\ UNCHANGED <<pipelineVars, keyVars, searchVars, serverlessVars>>

\* The instants at which something happens: the start, the end of the first
\* backoff, and the first instant at which an entry counted at the start is
\* stale.
Instants == {0, Second, ThirtyMinutes + 1}

\* Time passes.
Tick ==
  /\ \E t \in Instants : t > clock /\ clock' = t
  /\ UNCHANGED <<ipAttempts, usernameAttempts, attemptData, logins, history>>
  /\ UNCHANGED <<pipelineVars, keyVars, searchVars, serverlessVars>>

MaxLogins == 2

LoginNext ==
  \/ \E r \in 1..MaxLogins :
       PostLogin(r) \/ LoginRateLimit(r) \/ UsernameRateLimit(r) \/ LoginHandler(r)
  \/ CleanupAttempts
  \/ Tick

\* No 401 response has been counted and no entry has been cleaned up.
NoHistory ==
  [ failedIp           |-> [i \in Identifiers |-> 0],
    failedUsername     |-> [u \in Usernames |-> 0],
    forgottenIps       |-> {},
    forgottenUsernames |-> {} ]

\* The server has just started, or "al" has failed to log in from ip1 once, in
\* a request that began and ended at instant 0.
LoginInit ==
  /\ PipelineIdle
  /\ KeysIdle
  /\ SearchIdle
  /\ ServerlessIdle
  /\ clock = 0
  /\ logins = [r \in 1..MaxLogins |-> NoLogin]
  /\ \/ /\ ipAttempts = <<>>
        /\ usernameAttempts = <<>>
        /\ attemptData = <<>>
        /\ history = NoHistory
     \/ /\ ipAttempts = MapSet(<<>>, "ip1", 1)
        /\ usernameAttempts = MapSet(<<>>, <<"a","l">>, 2)
        /\ attemptData = << Counted(NoAttempts, 0), Counted(NoAttempts, 0) >>
        /\ history = [NoHistory EXCEPT !.failedIp["ip1"] = 1,
                                       !.failedUsername[<<"a","l">>] = 1]

SpecLogin == LoginInit /\ [][LoginNext]_vars


\* --- C25 ------------------------------------------------------------------------
\* The response of request r ends in this step with the status code, the
\* request having passed the middleware with a username.
Ends(r, status) ==
  /\ logins[r].pc = "handler"
  /\ logins[r].tracked
  /\ logins'[r].pc = "done"
  /\ logins'[r].status = status

\* min(2^(n-1) s, 15 min) in milliseconds.
BackoffOf(n) ==
  IF Pow2(n - 1) * Second < MaxBackoffDelay THEN Pow2(n - 1) * Second ELSE MaxBackoffDelay

\* The failure counts for which the delay is compared.
MaxAttemptCount == 12

\* C25: when the n-th failed login in a row for a username or an IP ends (no
\* success and no cleanup of that key since the first), the entry of the key
\* allows the next attempt no earlier than the start of the failed request
\* plus min(2^(n-1) s, 15 min); the delay does not decrease as n grows and
\* never exceeds 15 minutes.
BackoffFollowsFailureCount ==
  /\ [](\A n \in 1..MaxAttemptCount :
          /\ calculateBackoffDelay(n) <= calculateBackoffDelay(n + 1)
          /\ calculateBackoffDelay(n) <= MaxBackoffDelay)
  /\ [][\A r \in 1..MaxLogins :
          Ends(r, 401) =>
            LET req == logins[r] IN
            /\ req.username \notin history.forgottenUsernames =>
                 /\ req.username \in DOMAIN usernameAttempts'
                 /\ attemptData'[usernameAttempts'[req.username]].nextAllowedAttempt
                      >= req.now + BackoffOf(history'.failedUsername[req.username])
            /\ req.identifier \notin history.forgottenIps =>
                 /\ req.identifier \in DOMAIN ipAttempts'
                 /\ attemptData'[ipAttempts'[req.identifier]].nextAllowedAttempt
                      >= req.now + BackoffOf(history'.failedIp[req.identifier])]_vars

\* The delay that calculateBackoffDelay computes is the stated one, it grows
\* with the count and stops at 15 minutes.
BackoffDelayIsMonotoneAndCapped ==
  \A n \in 1..MaxAttemptCount :
    /\ calculateBackoffDelay(n) = BackoffOf(n)
    /\ calculateBackoffDelay(n) <= calculateBackoffDelay(n + 1)
    /\ calculateBackoffDelay(n) <= MaxBackoffDelay

\* --- C26 ------------------------------------------------------------------------
\* The map has an entry for the key that does not allow an attempt yet.
EntryBlocks(map, key) ==
  key \in DOMAIN map /\ clock < attemptData[map[key]].nextAllowedAttempt

\* The request names a username.
NamesUser(req) == req.name # Undefined /\ UsernameOf(req.name) # <<>>

\* C26: a login request that names a username and reaches the middleware while
\* the entry of its IP or of its username does not allow an attempt yet is
\* answered 429 without the login handler being run, and both maps and their
\* objects stay as they are.
BlockedLoginChangesNothing ==
  [][\A r \in 1..MaxLogins :
       ( /\ logins[r].pc = "usernameRateLimit"
         /\ logins'[r] # logins[r]
         /\ NamesUser(logins[r])
         /\ \/ EntryBlocks(ipAttempts, logins[r].identifier)
            \/ EntryBlocks(usernameAttempts, UsernameOf(logins[r].name)) )
       => /\ logins'[r].pc = "done"
          /\ logins'[r].status = 429
          /\ ~logins'[r].reachedHandler
          /\ ipAttempts' = ipAttempts
          /\ usernameAttempts' = usernameAttempts
          /\ attemptData' = attemptData]_vars

\* The middleware has answered 429 to a request for "al" made before the
\* backoff of the earlier failure was over.
BlockedLoginWitness ==
  /\ clock < Second
  /\ EntryBlocks(usernameAttempts, <<"a","l">>)
  /\ \E r \in 1..MaxLogins :
       /\ logins[r].pc = "done"
       /\ logins[r].status = 429
       /\ logins[r].tracked

\* --- C27 ------------------------------------------------------------------------
\* C27: a login that ends with a 2xx status leaves neither an entry for its IP
\* nor one for its username; a key without failure since its last success
\* has no entry, so that the next request for it is let through to the login
\* handler unless its other key blocks it; and when that request ends with
\* 401 the count of the key is 1.
SuccessResetsBothEntries ==
  /\ [](\A i \in Identifiers : history.failedIp[i] = 0 => i \notin DOMAIN ipAttempts)
  /\ [](\A u \in Usernames : history.failedUsername[u] = 0 => u \notin DOMAIN usernameAttempts)
  /\ [][\A r \in 1..MaxLogins :
          /\ Ends(r, 200) =>
               /\ logins[r].identifier \notin DOMAIN ipAttempts'
               /\ logins[r].username \notin DOMAIN usernameAttempts'
          /\ ( /\ logins[r].pc = "usernameRateLimit"
               /\ logins'[r] # logins[r]
               /\ NamesUser(logins[r])
               /\ history.failedIp[logins[r].identifier] = 0
               /\ history.failedUsername[UsernameOf(logins[r].name)] = 0 )
             => logins'[r].pc = "handler"
          /\ (Ends(r, 401) /\ logins[r].priorUsername = 0) =>
               attemptData'[usernameAttempts'[logins[r].username]].count = 1
          /\ (Ends(r, 401) /\ logins[r].priorIp = 0) =>
               attemptData'[ipAttempts'[logins[r].identifier]].count = 1]_vars

\* After the earlier failure of "al" a login succeeded and the next attempt
\* failed: the two objects of the earlier failure are in no map any more and
\* those of the new failure count 1.
ResetWitness ==
  /\ Len(attemptData) = 4
  /\ history.forgottenUsernames = {}
  /\ history.forgottenIps = {}
  /\ \E r, s \in 1..MaxLogins :
       /\ logins[r].pc = "done" /\ logins[r].status = 200 /\ logins[r].tracked
       /\ logins[s].pc = "done" /\ logins[s].status = 401 /\ logins[s].tracked
  /\ <<"a","l">> \in DOMAIN usernameAttempts
  /\ usernameAttempts[<<"a","l">>] = 4
  /\ attemptData[4].count = 1
  /\ history.failedUsername[<<"a","l">>] = 1

\* --- C28 ------------------------------------------------------------------------
\* C28: the count stored for a username is the number of its login requests
\* that ended with 401 since its last successful login (as long as no cleanup
\* removed its entry), in whatever order the requests began and ended.
EveryFailureIsCounted ==
  \A u \in Usernames \ history.forgottenUsernames :
    history.failedUsername[u] >= 1 =>
      /\ u \in DOMAIN usernameAttempts
      /\ attemptData[usernameAttempts[u]].count = history.failedUsername[u]


(***************************************************************************)
(* The serverless entry point (api/index.ts)                               *)
(***************************************************************************)

\* An invocation that has not arrived yet.
NoInvocation == [pc |-> "idle"]

\* The exported handler starts: await initializeApp(). With the flag unset
\* registerRoutes(app) is called; it awaits nothing that needs the event loop
\* (setupAuth only installs middleware), so it has completed before any other
\* invocation runs. seedAdminUser follows: with ADMIN_PASSWORD set it awaits
\* the storage, and the flag is set only after it; without it returns (or
\* catches its own error) at once.
Invoke(r) ==
  /\ invocations[r].pc = "idle"
  /\ IF r = 1 THEN TRUE ELSE invocations[r - 1].pc # "idle"
  /\ IF initialized
     THEN /\ invocations' = [invocations EXCEPT ![r] = [pc |-> "ready"]]
          /\ UNCHANGED <<initialized, registerCalls>>
     ELSE /\ registerCalls' = registerCalls + 1
          /\ IF adminPassword
             THEN /\ invocations' = [invocations EXCEPT ![r] = [pc |-> "seeding"]]
                  /\ UNCHANGED initialized
             ELSE /\ invocations' = [invocations EXCEPT ![r] = [pc |-> "ready"]]
                  /\ initialized' = TRUE
  /\ UNCHANGED adminPassword
  /\ UNCHANGED <<pipelineVars, keyVars, searchVars, loginVars>>

\* await seedAdminUser() returns; initialized = true.
SeedAdminUser(r) ==
  /\ invocations[r].pc = "seeding"
  /\ invocations' = [invocations EXCEPT ![r] = [pc |-> "ready"]]
  /\ initialized' = TRUE
  /\ UNCHANGED <<adminPassword, registerCalls>>
  /\ UNCHANGED <<pipelineVars, keyVars, searchVars, loginVars>>

\* return app(req, res)
HandleRequest(r) ==
  /\ invocations[r].pc = "ready"
  /\ invocations' = [invocations EXCEPT ![r] = [pc |-> "handled"]]
  /\ UNCHANGED <<initialized, adminPassword, registerCalls>>
  /\ UNCHANGED <<pipelineVars, keyVars, searchVars, loginVars>>

MaxInvocations == 4

ServerlessNext ==
  \E r \in 1..MaxInvocations : Invoke(r) \/ SeedAdminUser(r) \/ HandleRequest(r)

\* A process that has just been started, with or without ADMIN_PASSWORD.
ServerlessInit ==
  /\ PipelineIdle
  /\ KeysIdle
  /\ SearchIdle
  /\ LoginIdle
  /\ initialized = FALSE
  /\ adminPassword \in BOOLEAN
  /\ registerCalls = 0
  /\ invocations = [r \in 1..MaxInvocations |-> NoInvocation]

SpecServerless == ServerlessInit /\ [][ServerlessNext]_vars

\* --- C29 ------------------------------------------------------------------------
\* C29: registerRoutes(app) is called at most once in the life of the process,
\* and a request is handed to the app only when a call of it has completed.
RoutesRegisteredOnce ==
  /\ registerCalls <= 1
  /\ \A r \in 1..MaxInvocations :
       invocations[r].pc \in {"ready", "handled"} => registerCalls >= 1

\* No request is handed to the app before registerRoutes has completed.
RoutesRegisteredBeforeHandling ==
  \A r \in 1..MaxInvocations :
    invocations[r].pc \in {"ready", "handled"} => registerCalls >= 1


(***************************************************************************)
(* Two imports served at the same time                                     *)
(***************************************************************************)

\* "Ab" by "x", the same podcast in another formatting, and another podcast.
RaceLines ==
  { << <<"A","b">>, <<"x">> >>,
    << <<"T","h","e"," ","a","b","!">>, <<" ","X"," ">> >>,
    << <<"C","d">>, <<"x">> >> }

\* Files of one data line.
RaceFiles ==
  { << << <<"t","i","t","l","e">>, <<"h","o","s","t">> >>, line >> : line \in RaceLines }

\* An empty table, and a table with one podcast.
RaceTables == { <<>>, << Stored(FreshId(1), <<"C","d">>, <<"x">>) >> }

\* Two calls have reached the handler; no two persisted records have one key.
RaceInit ==
  /\ db \in RaceTables
  /\ nextId = Len(db) + 1
  /\ \E f \in RaceFiles, g \in RaceFiles, overwrite \in BOOLEAN, other \in BOOLEAN :
       imports = << NewRequest(TRUE, f, overwrite), NewRequest(TRUE, g, other) >>
  /\ KeysIdle
  /\ ServicesIdle

\* The handler is async: between two of its steps the event loop may serve
\* the other call, which takes the place of the call being served.
TakeTurn ==
  /\ imports[2].pc # "done"
  /\ imports' = << imports[2], imports[1] >>
  /\ UNCHANGED <<db, nextId, keyVars, serviceVars>>

RaceNext == ImportStep(1) \/ TakeTurn

SpecRace == RaceInit /\ [][RaceNext]_vars

\* --- C30 ------------------------------------------------------------------------
\* C30: two imports that each hold one valid row, served at the same time on a
\* table in which no two records have one identity key, leave no two persisted
\* records with one identity key, in whatever order their storage calls are
\* made.
ImportsCreateNoDuplicate ==
  \A i, j \in 1..Len(db) : i # j => KeyOf(db[i]) # KeyOf(db[j])

====
